---- MODULE Spec2Model ----
(***************************************************************************)
(* A model of open-telemorph-prime: the SQLite storage engine with its     *)
(* retention purge, the PromQL-like parser and evaluator, and the two OTLP *)
(* ingestion adapters (JSON over HTTP, gRPC).                              *)
(*                                                                         *)
(* Time is an integer count of nanoseconds since the Unix epoch, as the    *)
(* storage layer keeps it (Timestamp.UnixNano()).  The length of a second  *)
(* and of a day are scaled down so that the model stays finite; every      *)
(* comparison the code makes is kept.                                      *)
(***************************************************************************)
EXTENDS Integers, Sequences, FiniteSets, TLC

VARIABLES
    metrics,    \* table metrics: sequence of rows in rowid order
    traces,     \* table traces
    logs,       \* table logs
    seq,        \* AUTOINCREMENT counters, one per table
    now,        \* the wall clock, UnixNano
    last        \* the last call made, with its arguments and what it returned

vars == <<metrics, traces, logs, seq, now, last>>

(***************************************************************************)
(* Bounds and scales.                                                      *)
(***************************************************************************)
NanosPerSecond == 4     \* time.Second, scaled down from 1000000000
SecondsPerDay == 1      \* scaled down from 86400
RetentionDays == 2      \* config.StorageConfig.RetentionDays (default 30)
MaxRows == 3            \* rows ever inserted, over the three tables
MaxTicks == 2           \* how often the clock advances
MaxQueryRows == 2       \* metric rows in the query specification
MaxRatePoints == 3      \* points of a series handed to rate
MaxSumPoints == 2       \* points of a series handed to sum and avg
MaxSeries == 2          \* series handed to sum and avg
MaxValueLen == 1        \* characters of a quoted label value
MaxPairs == 2           \* pairs of a label selector
MaxDigits == 2          \* digits of a duration literal
MaxBy == 2              \* labels of a by clause
MaxBatch == 2           \* records under one parent in a batch
MaxMetrics == 2         \* metrics of a gRPC batch
MaxIngested == 2        \* rows in storage up to which batches arrive
MaxListed == 2          \* rows ever inserted in the listing specification
MaxCycles == 2          \* times the ticker of the dogfood loop fires
MaxSpans == 2           \* spans ever inserted in the span specification
MaxLimit == 2           \* the largest limit and offset of a listing

CalendarDay == NanosPerSecond * SecondsPerDay

Kinds == <<"metrics", "traces", "logs">>

NoError == "nil"

(***************************************************************************)
(* Helpers on sequences.                                                   *)
(***************************************************************************)
Range(s) == {s[i] : i \in DOMAIN s}

RECURSIVE Filter(_, _)
\* The subsequence of s whose elements are in the set keep.
Filter(s, keep) ==
    IF s = <<>> THEN <<>>
    ELSE IF Head(s) \in keep THEN <<Head(s)>> \o Filter(Tail(s), keep)
         ELSE Filter(Tail(s), keep)

(***************************************************************************)
(* Storage engine (storage/sqlite.go).                                     *)
(***************************************************************************)
\* The primary timestamp column of a row: timestamp for metrics and logs,
\* start_time for traces.
PrimaryTimestamp(kind, row) ==
    IF kind = "traces" THEN row.start_time ELSE row.timestamp

Table(kind) ==
    CASE kind = "metrics" -> metrics
      [] kind = "traces" -> traces
      [] kind = "logs" -> logs

\* The largest and the smallest int64 (scaled from 2^63 - 1 and -2^63).
MaxInt64 == 2 ^ 21 - 1

MinInt64 == -(2 ^ 21)

\* The conversion of an integer to int64: it wraps around.
Int64(n) == ((n - MinInt64) % (MaxInt64 - MinInt64 + 1)) + MinInt64

\* t.UnixNano() of a time t, an instant counted in nanoseconds since the
\* epoch: the count as an int64.
UnixNano(t) == Int64(t)

\* INSERT INTO metrics (timestamp, metric_name, value, labels, service_name)
MetricRow(id, m) ==
    [id |-> id, timestamp |-> UnixNano(m.Timestamp), metric_name |-> m.MetricName,
     value |-> m.Value, labels |-> m.Labels, service_name |-> m.ServiceName]

\* INSERT INTO traces (...)
TraceRow(id, t) ==
    [id |-> id, trace_id |-> t.TraceID, span_id |-> t.SpanID,
     parent_span_id |-> t.ParentSpanID, service_name |-> t.ServiceName,
     operation_name |-> t.OperationName, start_time |-> UnixNano(t.StartTime),
     duration_nanos |-> t.DurationNanos, attributes |-> t.Attributes,
     status_code |-> t.StatusCode]

\* INSERT INTO logs (...)
LogRow(id, l) ==
    [id |-> id, timestamp |-> UnixNano(l.Timestamp), service_name |-> l.ServiceName,
     level |-> l.Level, message |-> l.Message, attributes |-> l.Attributes,
     trace_id |-> l.TraceID, span_id |-> l.SpanID]

RowsInserted == seq.metrics + seq.traces + seq.logs

\* InsertMetric: db.Exec either appends the row or fails and returns the error.
InsertMetric(m, fails) ==
    /\ RowsInserted < MaxRows
    /\ IF fails
       THEN /\ UNCHANGED <<metrics, seq>>
            /\ last' = [op |-> "InsertMetric", record |-> m, err |-> "exec failed"]
       ELSE /\ metrics' = Append(metrics, MetricRow(seq.metrics + 1, m))
            /\ seq' = [seq EXCEPT !.metrics = @ + 1]
            /\ last' = [op |-> "InsertMetric", record |-> m, err |-> NoError]
    /\ UNCHANGED <<traces, logs, now>>

InsertTrace(t, fails) ==
    /\ RowsInserted < MaxRows
    /\ IF fails
       THEN /\ UNCHANGED <<traces, seq>>
            /\ last' = [op |-> "InsertTrace", record |-> t, err |-> "exec failed"]
       ELSE /\ traces' = Append(traces, TraceRow(seq.traces + 1, t))
            /\ seq' = [seq EXCEPT !.traces = @ + 1]
            /\ last' = [op |-> "InsertTrace", record |-> t, err |-> NoError]
    /\ UNCHANGED <<metrics, logs, now>>

InsertLog(l, fails) ==
    /\ RowsInserted < MaxRows
    /\ IF fails
       THEN /\ UNCHANGED <<logs, seq>>
            /\ last' = [op |-> "InsertLog", record |-> l, err |-> "exec failed"]
       ELSE /\ logs' = Append(logs, LogRow(seq.logs + 1, l))
            /\ seq' = [seq EXCEPT !.logs = @ + 1]
            /\ last' = [op |-> "InsertLog", record |-> l, err |-> NoError]
    /\ UNCHANGED <<metrics, traces, now>>

\* cutoff := time.Now().AddDate(0, 0, -s.config.RetentionDays).UnixNano()
Cutoff(t) == t - RetentionDays * CalendarDay

\* DELETE FROM <kind> WHERE <primary timestamp> < ?
DeleteOlderThan(kind, rows, cutoff) ==
    Filter(rows, {r \in Range(rows) : ~(PrimaryTimestamp(kind, r) < cutoff)})

\* The number of delete statements CleanupOldData runs to completion when the
\* statement number failAt fails (0: none fails): the loop returns at the
\* first error.
StatementsDone(failAt) == IF failAt = 0 THEN Len(Kinds) ELSE failAt - 1

\* CleanupOldData: the three deletes in the order metrics, traces, logs, each
\* its own statement (no transaction).
CleanupOldData(failAt) ==
    LET cutoff == Cutoff(now)
        done == StatementsDone(failAt)
        After(i, rows) ==
            IF i <= done THEN DeleteOlderThan(Kinds[i], rows, cutoff) ELSE rows
    IN /\ metrics' = After(1, metrics)
       /\ traces' = After(2, traces)
       /\ logs' = After(3, logs)
       /\ last' = [op |-> "CleanupOldData", cutoff |-> cutoff, failAt |-> failAt,
                   err |-> IF failAt = 0 THEN NoError
                           ELSE "failed to cleanup old data"]
       /\ UNCHANGED <<seq, now>>

\* Time passes.
Tick ==
    /\ now < (RetentionDays + 1) * CalendarDay + MaxTicks
    /\ now' = now + 1
    /\ UNCHANGED <<metrics, traces, logs, seq, last>>

(***************************************************************************)
(* Inputs of the retention specification: records around the cutoff.       *)
(***************************************************************************)
RetentionTimes ==
    {now - (RetentionDays + 1) * CalendarDay, Cutoff(now) - 1, Cutoff(now),
     now - (RetentionDays - 1) * CalendarDay}

NoLabels == <<>>

RetentionMetric(t) ==
    [Timestamp |-> t, MetricName |-> "m", Value |-> 1, Labels |-> NoLabels,
     ServiceName |-> "svc"]

RetentionTrace(t) ==
    [TraceID |-> "t1", SpanID |-> "s1", ParentSpanID |-> "", ServiceName |-> "svc",
     OperationName |-> "op", StartTime |-> t, DurationNanos |-> 1,
     Attributes |-> NoLabels, StatusCode |-> "OK"]

RetentionLog(t) ==
    [Timestamp |-> t, ServiceName |-> "svc", Level |-> "INFO", Message |-> "msg",
     Attributes |-> NoLabels, TraceID |-> "", SpanID |-> ""]

Init ==
    /\ metrics = <<>>
    /\ traces = <<>>
    /\ logs = <<>>
    /\ seq = [metrics |-> 0, traces |-> 0, logs |-> 0]
    /\ now = (RetentionDays + 1) * CalendarDay
    /\ last = [op |-> "none", err |-> NoError]

Next ==
    \/ \E t \in RetentionTimes, f \in BOOLEAN : InsertMetric(RetentionMetric(t), f)
    \/ \E t \in RetentionTimes, f \in BOOLEAN : InsertTrace(RetentionTrace(t), f)
    \/ \E t \in RetentionTimes, f \in BOOLEAN : InsertLog(RetentionLog(t), f)
    \/ \E failAt \in 0..Len(Kinds) : CleanupOldData(failAt)
    \/ Tick

Spec == Init /\ [][Next]_vars

(***************************************************************************)
(* Floating point values.  A float64 is kept as an exact fraction n/d in   *)
(* lowest terms with d > 0; d = 0 stands for the IEEE results of a         *)
(* division by zero: +Inf (n = 1), -Inf (n = -1) and NaN (n = 0).          *)
(***************************************************************************)
Abs(x) == IF x < 0 THEN -x ELSE x

Sign(x) == IF x > 0 THEN 1 ELSE IF x < 0 THEN -1 ELSE 0

RECURSIVE Gcd(_, _)
Gcd(a, b) == IF b = 0 THEN a ELSE Gcd(b, a % b)

Frac(n, d) ==
    IF d = 0 THEN [n |-> Sign(n), d |-> 0]
    ELSE LET g == Gcd(Abs(n), Abs(d))
         IN [n |-> Sign(d) * (n \div g), d |-> Abs(d) \div g]

Float(i) == [n |-> i, d |-> 1]

NaN == [n |-> 0, d |-> 0]

FNeg(a) == [n |-> -a.n, d |-> a.d]

\* a + b
FAdd(a, b) ==
    IF a.d = 0 /\ b.d = 0 THEN (IF a.n = b.n THEN a ELSE NaN)
    ELSE IF a.d = 0 THEN a
    ELSE IF b.d = 0 THEN b
    ELSE Frac(a.n * b.d + b.n * a.d, a.d * b.d)

\* a - b
FSub(a, b) == FAdd(a, FNeg(b))

\* a / b
FDiv(a, b) ==
    IF (a.d = 0 /\ a.n = 0) \/ (b.d = 0 /\ b.n = 0) THEN NaN
    ELSE IF a.d = 0 THEN (IF b.d = 0 THEN NaN
                          ELSE [n |-> a.n * (IF b.n < 0 THEN -1 ELSE 1), d |-> 0])
    ELSE IF b.d = 0 THEN Float(0)
    ELSE Frac(a.n * b.d, a.d * b.n)

\* a < b (false whenever a NaN is compared)
FLess(a, b) ==
    IF (a.d = 0 /\ a.n = 0) \/ (b.d = 0 /\ b.n = 0) THEN FALSE
    ELSE IF a.d = 0 THEN a.n < 0 /\ ~(b.d = 0 /\ b.n < 0)
    ELSE IF b.d = 0 THEN b.n > 0
    ELSE a.n * b.d < b.n * a.d

\* Duration.Seconds()
Seconds(duration) == Frac(duration, NanosPerSecond)

(***************************************************************************)
(* Query evaluator (query/promql/evaluator.go).                            *)
(***************************************************************************)
EmptyLabels == [k \in {} |-> ""]

MetricPoint(ts, v, labels) == [Timestamp |-> ts, Value |-> v, Labels |-> labels]

MetricSeries(name, labels, points) ==
    [MetricName |-> name, Labels |-> labels, Points |-> points]

\* s.Points[k].Timestamp.After(rangeStart)
InRateWindowInclusive(ts, rangeStart) == ts >= rangeStart

InRateWindow(ts, rangeStart) == ts > rangeStart

\* for k := j - 1; k >= 0; k-- { if After(rangeStart) { prevPoint = ...; break } }
\* The index of prevPoint, 0 when the scan finds none.
RECURSIVE ScanPrev(_, _, _)
ScanPrev(points, k, rangeStart) ==
    IF k < 1 THEN 0
    ELSE IF InRateWindow(points[k].Timestamp, rangeStart) THEN k
    ELSE ScanPrev(points, k - 1, rangeStart)

\* The points applyRate appends for the input points j..Len(points).
RECURSIVE RatePoints(_, _, _)
RatePoints(points, j, rangeDuration) ==
    IF j > Len(points) THEN <<>>
    ELSE LET point == points[j]
             prev == IF j = 1 THEN 0
                     ELSE ScanPrev(points, j - 1, point.Timestamp - rangeDuration)
             this ==
                 IF prev = 0 THEN <<>>
                 ELSE LET timeDiff == Seconds(point.Timestamp - points[prev].Timestamp)
                          valueDiff == FSub(point.Value, points[prev].Value)
                      IN <<MetricPoint(point.Timestamp, FDiv(valueDiff, timeDiff),
                                       point.Labels)>>
         IN this \o RatePoints(points, j + 1, rangeDuration)

applyRate(series, rangeDuration) ==
    [i \in DOMAIN series |->
        MetricSeries(series[i].MetricName, series[i].Labels,
                     RatePoints(series[i].Points, 1, rangeDuration))]

\* Timestamp.Before(rangeStart)
BeforeWindowStart(ts, rangeStart) == ts < rangeStart

\* Timestamp.Before(rangeStart) || Timestamp.Equal(rangeStart)
AtOrBeforeWindowStart(ts, rangeStart) == ts <= rangeStart

\* for k := j; k >= 0; k-- { if Before || Equal { startPoint = ...; break } }
RECURSIVE ScanStart(_, _, _)
ScanStart(points, k, rangeStart) ==
    IF k < 1 THEN 0
    ELSE IF AtOrBeforeWindowStart(points[k].Timestamp, rangeStart) THEN k
    ELSE ScanStart(points, k - 1, rangeStart)

RECURSIVE IncreasePoints(_, _, _)
IncreasePoints(points, j, rangeDuration) ==
    IF j > Len(points) THEN <<>>
    ELSE LET point == points[j]
             start == ScanStart(points, j, point.Timestamp - rangeDuration)
             this ==
                 IF start = 0 THEN <<>>
                 ELSE <<MetricPoint(point.Timestamp,
                                    FSub(point.Value, points[start].Value),
                                    point.Labels)>>
         IN this \o IncreasePoints(points, j + 1, rangeDuration)

applyIncrease(series, rangeDuration) ==
    [i \in DOMAIN series |->
        MetricSeries(series[i].MetricName, series[i].Labels,
                     IncreasePoints(series[i].Points, 1, rangeDuration))]

\* timestampMap: every timestamp of every point of every series.
TimestampSet(series) ==
    UNION {{p.Timestamp : p \in Range(series[i].Points)} : i \in DOMAIN series}

\* sort.Slice(timestamps, Before)
RECURSIVE SortAscending(_)
SortAscending(S) ==
    IF S = {} THEN <<>>
    ELSE LET m == CHOOSE x \in S : \A y \in S : x <= y
         IN <<m>> \o SortAscending(S \ {m})

\* for _, point := range s.Points { if point.Timestamp.Equal(ts) { ...; break } }
\* The index of the first point of points at ts from index k on, 0 when none.
RECURSIVE FirstAt(_, _, _)
FirstAt(points, k, ts) ==
    IF k > Len(points) THEN 0
    ELSE IF points[k].Timestamp = ts THEN k
    ELSE FirstAt(points, k + 1, ts)

\* The inner loops, were a series without a point at ts to count as a zero.
RECURSIVE SumAtMissingAsZero(_, _, _)
SumAtMissingAsZero(series, i, ts) ==
    IF i > Len(series) THEN [sum |-> Float(0), count |-> 0]
    ELSE LET k == FirstAt(series[i].Points, 1, ts)
             rest == SumAtMissingAsZero(series, i + 1, ts)
         IN [sum |-> IF k = 0 THEN rest.sum
                     ELSE FAdd(series[i].Points[k].Value, rest.sum),
             count |-> rest.count + 1]

\* The inner loops of applySum and applyAvg over the series i..Len(series):
\* the sum and the number of the series that have a point at ts.
RECURSIVE SumAt(_, _, _)
SumAt(series, i, ts) ==
    IF i > Len(series) THEN [sum |-> Float(0), count |-> 0]
    ELSE LET k == FirstAt(series[i].Points, 1, ts)
             rest == SumAt(series, i + 1, ts)
         IN IF k = 0 THEN rest
            ELSE [sum |-> FAdd(series[i].Points[k].Value, rest.sum),
                  count |-> rest.count + 1]

applySum(series) ==
    IF Len(series) = 0 THEN series
    ELSE LET timestamps == SortAscending(TimestampSet(series))
         IN <<MetricSeries(series[1].MetricName, EmptyLabels,
                [j \in DOMAIN timestamps |->
                    MetricPoint(timestamps[j], SumAt(series, 1, timestamps[j]).sum,
                                EmptyLabels)])>>

applyAvg(series) ==
    IF Len(series) = 0 THEN series
    ELSE LET timestamps == SortAscending(TimestampSet(series))
             avg(ts) == LET at == SumAt(series, 1, ts)
                        IN IF at.count > 0 THEN FDiv(at.sum, Float(at.count))
                           ELSE Float(0)
         IN <<MetricSeries(series[1].MetricName, EmptyLabels,
                [j \in DOMAIN timestamps |->
                    MetricPoint(timestamps[j], avg(timestamps[j]), EmptyLabels)])>>

\* A point built without labels (applyCount, applyMin, applyMax): its nil
\* map reads as the empty map.
BarePoint(ts, v) == [Timestamp |-> ts, Value |-> v, Labels |-> EmptyLabels]

applyCount(series, t) ==
    <<MetricSeries("count", EmptyLabels, <<BarePoint(t, Float(Len(series)))>>)>>

AllPoints(series) == UNION {Range(series[i].Points) : i \in DOMAIN series}

PosInf == [n |-> 1, d |-> 0]

NegInf == [n |-> -1, d |-> 0]

\* min := math.Inf(1); if point.Value < min { min = point.Value }
RECURSIVE MinOver(_, _)
MinOver(points, min) ==
    IF points = <<>> THEN min
    ELSE MinOver(Tail(points), IF FLess(Head(points).Value, min)
                               THEN Head(points).Value ELSE min)

RECURSIVE MaxOver(_, _)
MaxOver(points, max) ==
    IF points = <<>> THEN max
    ELSE MaxOver(Tail(points), IF FLess(max, Head(points).Value)
                               THEN Head(points).Value ELSE max)

\* All points of all series, in the order the nested loops visit them.
RECURSIVE Flatten(_)
Flatten(series) ==
    IF series = <<>> THEN <<>> ELSE Head(series).Points \o Flatten(Tail(series))

applyMin(series, t) ==
    IF Len(series) = 0 THEN series
    ELSE <<MetricSeries(series[1].MetricName, EmptyLabels,
                        <<BarePoint(t, MinOver(Flatten(series), PosInf))>>)>>

applyMax(series, t) ==
    IF Len(series) = 0 THEN series
    ELSE <<MetricSeries(series[1].MetricName, EmptyLabels,
                        <<BarePoint(t, MaxOver(Flatten(series), NegInf))>>)>>

Ok(series) == [err |-> NoError, series |-> series]

Failed(err) == [err |-> err, series |-> <<>>]

ErrUnsupportedFunction == "unsupported function"

ErrUnsupportedAggregation == "unsupported aggregation"

ErrQueryFailed == "database query failed"

\* The default branch of applyFunction, were it to pass the series through.
UnknownFunctionPassThrough(series, function) == Ok(series)

UnknownFunction(series, function) == Failed(ErrUnsupportedFunction)

\* applyFunction: the switch on the function name; t is time.Now().
applyFunction(series, function, rangeDuration, t) ==
    CASE function = "rate" -> Ok(applyRate(series, rangeDuration))
      [] function = "increase" -> Ok(applyIncrease(series, rangeDuration))
      [] function = "sum" -> Ok(applySum(series))
      [] function = "avg" -> Ok(applyAvg(series))
      [] function = "count" -> Ok(applyCount(series, t))
      [] function = "min" -> Ok(applyMin(series, t))
      [] function = "max" -> Ok(applyMax(series, t))
      [] OTHER -> UnknownFunction(series, function)

\* applyAggregation: the switch on agg.Operation.
applyAggregation(series, agg, t) ==
    CASE agg.Operation = "sum" -> Ok(applySum(series))
      [] agg.Operation = "avg" -> Ok(applyAvg(series))
      [] agg.Operation = "count" -> Ok(applyCount(series, t))
      [] agg.Operation = "min" -> Ok(applyMin(series, t))
      [] agg.Operation = "max" -> Ok(applyMax(series, t))
      [] OTHER -> Failed(ErrUnsupportedAggregation)

\* Time.Unix(): whole seconds since the epoch.
Unix(t) == t \div NanosPerSecond

\* time.Unix(sec, 0)
TimeUnix(sec) == sec * NanosPerSecond

\* AND JSON_EXTRACT(labels, '$.<key>') = ?  for every pair of query.Labels.
\* Label keys are plain identifiers here, so the path names the key itself.
MatchesLabels(labels, constraints) ==
    \A k \in DOMAIN constraints : k \in DOMAIN labels /\ labels[k] = constraints[k]

\* WHERE metric_name = ? AND timestamp >= ? AND timestamp <= ? with the
\* arguments query.MetricName, startTime.Unix(), endTime.Unix().
RowSelected(row, query, startTime, endTime) ==
    /\ row.metric_name = query.MetricName
    /\ row.timestamp >= Unix(startTime)
    /\ row.timestamp <= Unix(endTime)
    /\ MatchesLabels(row.labels, query.Labels)

\* ORDER BY timestamp ASC; rows of equal timestamp stay in rowid order.
RECURSIVE OrderByTimestamp(_)
OrderByTimestamp(rows) ==
    IF rows = <<>> THEN <<>>
    ELSE LET i == CHOOSE i \in DOMAIN rows :
                    \A j \in DOMAIN rows :
                        \/ rows[i].timestamp < rows[j].timestamp
                        \/ rows[i].timestamp = rows[j].timestamp /\ i <= j
         IN <<rows[i]>> \o
            OrderByTimestamp([j \in 1..(Len(rows) - 1) |->
                                 IF j < i THEN rows[j] ELSE rows[j + 1]])

\* labels := map[string]string{"service": serviceName}
RowLabels(row) == [service |-> row.service_name]

\* The series getMetricSeries builds for one series key: the points of the
\* selected rows with these labels, in the order the rows are read.
SeriesFor(labels, query, selected) ==
    LET mine == Filter(selected, {r \in Range(selected) : RowLabels(r) = labels})
    IN MetricSeries(query.MetricName, labels,
           [j \in DOMAIN mine |->
               MetricPoint(TimeUnix(mine[j].timestamp), Float(mine[j].value), labels)])

\* getMetricSeries: the series of seriesMap, as a set (the result slice is
\* filled by ranging over the map, in no fixed order).
getMetricSeries(rows, query, startTime, endTime) ==
    LET selected ==
            OrderByTimestamp(Filter(rows, {r \in Range(rows) :
                                RowSelected(r, query, startTime, endTime)}))
    IN {SeriesFor(labels, query, selected) :
            labels \in {RowLabels(r) : r \in Range(selected)}}

\* The orders in which a set can be laid out in a slice.
Orders(S) == {s \in [1..Cardinality(S) -> S] : Range(s) = S}

NoAggregation == <<>>

NoResult == <<>>

QueryResult(series) == <<[Series |-> series, Type |-> "vector"]>>

\* Evaluate after the fetch: the function if the query names one, then the
\* aggregation if the query carries one; the first error ends it.
Evaluation(query, fetched, queryFails) ==
    LET f == IF query.Function # ""
             THEN applyFunction(fetched, query.Function, query.Range, now)
             ELSE Ok(fetched)
        a == IF f.err = NoError /\ query.Aggregation # NoAggregation
             THEN applyAggregation(f.series, query.Aggregation[1], now)
             ELSE f
        err == IF queryFails THEN ErrQueryFailed ELSE a.err
    IN [err |-> err,
        result |-> IF err = NoError THEN QueryResult(a.series) ELSE NoResult]

\* Evaluate: fetch, then the function and the aggregation.
Evaluate(query, startTime, endTime, queryFails) ==
    /\ \E fetched \in IF queryFails THEN {<<>>}
                      ELSE Orders(getMetricSeries(metrics, query, startTime, endTime)) :
          LET e == Evaluation(query, fetched, queryFails)
          IN last' = [op |-> "Evaluate", query |-> query, startTime |-> startTime,
                      endTime |-> endTime, queryFails |-> queryFails,
                      fetched |-> fetched, err |-> e.err, result |-> e.result]
    /\ UNCHANGED <<metrics, traces, logs, seq, now>>

(***************************************************************************)
(* Retention.                                                              *)
(***************************************************************************)
\* A step of CleanupOldData: the only call that leaves the clock and the
\* counters alone and records itself in last.
IsPurgeStep ==
    /\ last'.op = "CleanupOldData"
    /\ now' = now
    /\ seq' = seq

\* The rows of a table that are not strictly older than now minus the
\* retention, in table order.
Survivors(kind, rows, t) ==
    Filter(rows, {r \in Range(rows) :
                    PrimaryTimestamp(kind, r) >= t - RetentionDays * CalendarDay})

\* C1: a stored record disappears only through a purge whose cutoff (now minus
\* RetentionDays days) is strictly later than its primary timestamp, and every
\* purge removes all records of all three kinds strictly older than its cutoff
\* and keeps the records at the cutoff or newer.
C1_PurgeRemovesAllOlder ==
    [][/\ \A r \in Range(metrics) \ Range(metrics') :
            IsPurgeStep /\ r.timestamp < now - RetentionDays * CalendarDay
       /\ \A r \in Range(traces) \ Range(traces') :
            IsPurgeStep /\ r.start_time < now - RetentionDays * CalendarDay
       /\ \A r \in Range(logs) \ Range(logs') :
            IsPurgeStep /\ r.timestamp < now - RetentionDays * CalendarDay
       /\ IsPurgeStep =>
            /\ metrics' = Survivors("metrics", metrics, now)
            /\ traces' = Survivors("traces", traces, now)
            /\ logs' = Survivors("logs", logs, now)]_vars

\* The part of C1 that does not depend on a delete statement failing: what a
\* purge removes is strictly older than the cutoff, and a purge that reports
\* no error leaves exactly the records at the cutoff or newer.
PurgeWithoutFailure ==
    [][/\ \A r \in Range(metrics) \ Range(metrics') :
            IsPurgeStep /\ r.timestamp < now - RetentionDays * CalendarDay
       /\ \A r \in Range(traces) \ Range(traces') :
            IsPurgeStep /\ r.start_time < now - RetentionDays * CalendarDay
       /\ \A r \in Range(logs) \ Range(logs') :
            IsPurgeStep /\ r.timestamp < now - RetentionDays * CalendarDay
       /\ (IsPurgeStep /\ last'.err = NoError) =>
            /\ metrics' = Survivors("metrics", metrics, now)
            /\ traces' = Survivors("traces", traces, now)
            /\ logs' = Survivors("logs", logs, now)]_vars

(***************************************************************************)
(* The query specification: metrics are inserted and queries evaluated.    *)
(***************************************************************************)
QueryMetrics ==
    {[Timestamp |-> t, MetricName |-> "m", Value |-> IF svc = "a" THEN 3 ELSE 4,
      Labels |-> l, ServiceName |-> svc] :
        t \in {0, 1, NanosPerSecond}, l \in {EmptyLabels, [env |-> "prod"]},
        svc \in {"a", "b"}}
    \cup {[Timestamp |-> 0, MetricName |-> "x", Value |-> 4, Labels |-> EmptyLabels,
           ServiceName |-> "a"]}

Aggregation(op) == <<[Operation |-> op, By |-> <<>>]>>

Queries ==
    {[MetricName |-> "m", Labels |-> l, Function |-> f, Range |-> r,
      Aggregation |-> a] :
        l \in {EmptyLabels, [env |-> "prod"]},
        f \in {"", "rate", "increase", "sum", "avg", "count", "min", "max",
               "abs", "bogus"},
        r \in {NanosPerSecond, 2 * NanosPerSecond},
        a \in {NoAggregation, Aggregation("sum"), Aggregation("count"),
               Aggregation("bogus")}}

QueryTimes ==
    {<<0, NanosPerSecond>>, <<0, 2 * NanosPerSecond>>,
     <<NanosPerSecond, 2 * NanosPerSecond>>}

InsertQueryMetric(m) ==
    /\ seq.metrics < MaxQueryRows
    /\ InsertMetric(m, FALSE)

\* One call at a time is observed: a call is made when the response of the
\* call before it has been taken.
Idle == last.op = "none"

Return ==
    /\ ~Idle
    /\ last' = [op |-> "none", err |-> NoError]
    /\ UNCHANGED <<metrics, traces, logs, seq, now>>

NextQuery ==
    \/ Idle /\ \E m \in QueryMetrics : InsertQueryMetric(m)
    \/ Idle /\ \E q \in Queries, t \in QueryTimes, f \in BOOLEAN :
                  Evaluate(q, t[1], t[2], f)
    \/ Return

SpecQuery == Init /\ [][NextQuery]_vars

(***************************************************************************)
(* Fetch.                                                                  *)
(***************************************************************************)
\* The points of all series of a fetch, each with the series it is in.
FetchedPoints(fetched) ==
    {<<i, j>> : i \in DOMAIN fetched, j \in 1..MaxQueryRows + 1} \cap
    UNION {{<<i, j>> : j \in DOMAIN fetched[i].Points} : i \in DOMAIN fetched}

\* The stored rows a query asks for: the metric name, the inclusive time
\* range and every label constraint.
RowsAskedFor(rows, query, startTime, endTime) ==
    {r \in Range(rows) :
        /\ r.metric_name = query.MetricName
        /\ startTime <= r.timestamp /\ r.timestamp <= endTime
        /\ \A k \in DOMAIN query.Labels :
              k \in DOMAIN r.labels /\ r.labels[k] = query.Labels[k]}

\* C2: the fetch returns, over all its series together, exactly one point for
\* each stored row of the queried metric whose stored timestamp lies in
\* [startTime, endTime] and whose labels meet every constraint, carrying that
\* row's stored timestamp and value; no other row contributes a point.
C2_FetchReturnsAskedRows ==
    (last.op = "Evaluate" /\ ~last.queryFails) =>
        LET asked == RowsAskedFor(metrics, last.query, last.startTime, last.endTime)
            points == FetchedPoints(last.fetched)
            At(p) == last.fetched[p[1]].Points[p[2]]
        IN /\ Cardinality(points) = Cardinality(asked)
           /\ \A r \in asked :
                 Cardinality({p \in points :
                     At(p).Timestamp = r.timestamp /\ At(p).Value = Float(r.value)})
                 = Cardinality({o \in asked :
                     o.timestamp = r.timestamp /\ o.value = r.value})

(***************************************************************************)
(* Unsupported functions and aggregations.                                 *)
(***************************************************************************)
\* The built-in catalog of function names.
Catalog ==
    {"rate", "increase", "sum", "avg", "count", "min", "max", "abs", "ceil",
     "floor", "round", "timestamp", "time"}

AggregationOperations == {"sum", "avg", "count", "min", "max"}

NamesUnsupported(query) ==
    \/ query.Function # "" /\ query.Function \notin Catalog
    \/ /\ query.Aggregation # NoAggregation
       /\ query.Aggregation[1].Operation \notin AggregationOperations

\* C8: evaluating a query whose function name or aggregation operation is not
\* a supported one ends with an error and no QueryResult, the error being the
\* unsupported-function or unsupported-aggregation error whenever the storage
\* fetch itself succeeded; the fetched series are never returned as they are.
C8_UnsupportedIsAnError ==
    (last.op = "Evaluate" /\ NamesUnsupported(last.query)) =>
        /\ last.result = NoResult
        /\ last.err # NoError
        /\ ~last.queryFails =>
              last.err \in {ErrUnsupportedFunction, ErrUnsupportedAggregation}

\* bogus(m[1s]) has been evaluated over a store that has rows for it.
C8_Witness ==
    /\ last.op = "Evaluate"
    /\ last.query.Function = "bogus"
    /\ last.fetched # <<>>
    /\ last.err = ErrUnsupportedFunction
    /\ last.result = NoResult

(***************************************************************************)
(* The evaluator's functions on the series a fetch can hand them: the      *)
(* points of a series are in ascending order of timestamp (ORDER BY), two  *)
(* rows of one series may share a timestamp, every timestamp is a whole    *)
(* second (time.Unix(ts, 0)) and every point carries its series' labels.   *)
(***************************************************************************)
SecondsOf(n) == n * NanosPerSecond

RateTimes == {SecondsOf(0), SecondsOf(5), SecondsOf(10), SecondsOf(15)}

RateValues == {10, 30}

RateRanges == {SecondsOf(5), SecondsOf(10), SecondsOf(15)}

\* The range of an increase; it is 0 for a query without a range selector.
IncreaseRanges == RateRanges \cup {0}

SumTimes == {SecondsOf(0), SecondsOf(5)}

SumValues == {3, 4}

Ascending(points) ==
    \A j \in 1..(Len(points) - 1) : points[j][1] <= points[j + 1][1]

\* The sequences of at most max pairs of a time and a value, in time order.
TimedValues(times, values, max) ==
    UNION {{ps \in [1..n -> times \X values] : Ascending(ps)} : n \in 0..max}

ServiceNames == <<"a", "b", "c", "d">>

\* The series of the i-th service with the given points.
SeriesOf(i, points) ==
    MetricSeries("m", [service |-> ServiceNames[i]],
                 [k \in 1..Len(points) |->
                     MetricPoint(points[k][1], Float(points[k][2]),
                                 [service |-> ServiceNames[i]])])

RateInputs ==
    {<<SeriesOf(1, ps)>> : ps \in TimedValues(RateTimes, RateValues, MaxRatePoints)}

SumPoints == TimedValues(SumTimes, SumValues, MaxSumPoints)

\* The list of series with the given points, the i-th one of the i-th service.
SeriesList(pss) == [i \in 1..Len(pss) |-> SeriesOf(i, pss[i])]

EvalRate(series, rangeDuration) ==
    /\ last' = [op |-> "applyRate", series |-> series,
                rangeDuration |-> rangeDuration,
                out |-> applyRate(series, rangeDuration)]
    /\ UNCHANGED <<metrics, traces, logs, seq, now>>

EvalIncrease(series, rangeDuration) ==
    /\ last' = [op |-> "applyIncrease", series |-> series,
                rangeDuration |-> rangeDuration,
                out |-> applyIncrease(series, rangeDuration)]
    /\ UNCHANGED <<metrics, traces, logs, seq, now>>

EvalSum(series) ==
    /\ last' = [op |-> "applySum", series |-> series, out |-> applySum(series)]
    /\ UNCHANGED <<metrics, traces, logs, seq, now>>

EvalAvg(series) ==
    /\ last' = [op |-> "applyAvg", series |-> series, out |-> applyAvg(series)]
    /\ UNCHANGED <<metrics, traces, logs, seq, now>>

EvalCount(series) ==
    /\ last' = [op |-> "applyCount", series |-> series,
                out |-> applyCount(series, now)]
    /\ UNCHANGED <<metrics, traces, logs, seq, now>>

EvalMin(series) ==
    /\ last' = [op |-> "applyMin", series |-> series, out |-> applyMin(series, now)]
    /\ UNCHANGED <<metrics, traces, logs, seq, now>>

EvalMax(series) ==
    /\ last' = [op |-> "applyMax", series |-> series, out |-> applyMax(series, now)]
    /\ UNCHANGED <<metrics, traces, logs, seq, now>>

NextEval ==
    \/ Idle /\ \E s \in RateInputs, r \in RateRanges : EvalRate(s, r)
    \/ Idle /\ \E s \in RateInputs, r \in IncreaseRanges : EvalIncrease(s, r)
    \/ Idle /\ \E n \in 1..MaxSeries :
                  \E pss \in [1..n -> SumPoints] : EvalSum(SeriesList(pss))
    \/ Idle /\ \E n \in 1..MaxSeries :
                  \E pss \in [1..n -> SumPoints] : EvalAvg(SeriesList(pss))
    \/ Idle /\ \E n \in 0..MaxSeries :
                  \E pss \in [1..n -> SumPoints] : EvalCount(SeriesList(pss))
    \/ Idle /\ \E n \in 0..MaxSeries :
                  \E pss \in [1..n -> SumPoints] : EvalMin(SeriesList(pss))
    \/ Idle /\ \E n \in 0..MaxSeries :
                  \E pss \in [1..n -> SumPoints] : EvalMax(SeriesList(pss))
    \/ Return

SpecEval == Init /\ [][NextEval]_vars

(***************************************************************************)
(* rate.                                                                   *)
(***************************************************************************)
\* The earlier points of point j in the window [t_j - range, t_j).
ClosedOpenWindow(points, j, rangeDuration) ==
    {k \in 1..(j - 1) :
        /\ points[j].Timestamp - rangeDuration <= points[k].Timestamp
        /\ points[k].Timestamp < points[j].Timestamp}

\* The earlier points of point j in the window (t_j - range, t_j].
OpenClosedWindow(points, j, rangeDuration) ==
    {k \in 1..(j - 1) :
        /\ points[j].Timestamp - rangeDuration < points[k].Timestamp
        /\ points[k].Timestamp <= points[j].Timestamp}

\* out holds, in the order of the input, one point for each input point j > 1
\* that has an earlier point in its window: at t_j, of value
\* (v_j - v_prev) / (t_j - t_prev in seconds) for the nearest such point prev.
RateOver(out, points, rangeDuration, Window(_, _, _)) ==
    LET J == {j \in 2..Len(points) : Window(points, j, rangeDuration) # {}}
        Prev(j) == CHOOSE k \in Window(points, j, rangeDuration) :
                      \A o \in Window(points, j, rangeDuration) : o <= k
        Rank(j) == Cardinality({i \in J : i <= j})
    IN /\ Len(out) = Cardinality(J)
       /\ \A j \in J :
             /\ out[Rank(j)].Timestamp = points[j].Timestamp
             /\ out[Rank(j)].Value =
                   FDiv(FSub(points[j].Value, points[Prev(j)].Value),
                        Seconds(points[j].Timestamp - points[Prev(j)].Timestamp))

\* C3: for every point j > 1 rate emits (v_j - v_prev) / (t_j - t_prev in
\* seconds) at t_j for the nearest earlier point prev in the window
\* [t_j - range, t_j), a point exactly at t_j - range included, and nothing
\* when no earlier point lies in that window.
C3_RateWindowClosedLeft ==
    last.op = "applyRate" =>
        /\ Len(last.out) = Len(last.series)
        /\ \A i \in DOMAIN last.series :
              RateOver(last.out[i].Points, last.series[i].Points,
                       last.rangeDuration, ClosedOpenWindow)

\* What applyRate does: the window of point j is (t_j - range, t_j]: a point exactly
\* at t_j - range is not in it, an earlier point of the same timestamp is (and
\* the quotient is then the IEEE result of dividing by zero seconds).
C3_RateWindowOpenLeft ==
    last.op = "applyRate" =>
        /\ Len(last.out) = Len(last.series)
        /\ \A i \in DOMAIN last.series :
              RateOver(last.out[i].Points, last.series[i].Points,
                       last.rangeDuration, OpenClosedWindow)

\* rate over 10s of the points (0s, 10), (10s, 30), (15s, 30): the second
\* point has its only earlier point exactly at the window start and yields
\* nothing, the third yields (30 - 30) / 5 = 0.
C3_Witness ==
    /\ last.op = "applyRate"
    /\ last.rangeDuration = SecondsOf(10)
    /\ Len(last.series[1].Points) = 3
    /\ last.series[1].Points[1].Timestamp = SecondsOf(0)
    /\ last.series[1].Points[2].Timestamp = SecondsOf(10)
    /\ last.series[1].Points[3].Timestamp = SecondsOf(15)
    /\ Len(last.out[1].Points) = 1
    /\ last.out[1].Points[1].Timestamp = SecondsOf(15)
    /\ last.out[1].Points[1].Value = Float(0)

(***************************************************************************)
(* sum and avg.                                                            *)
(***************************************************************************)
RECURSIVE SeqSum(_)
SeqSum(values) ==
    IF values = <<>> THEN 0 ELSE Head(values) + SeqSum(Tail(values))

\* The series that have a point at ts, in ascending order of index.
SeriesAt(series, ts) ==
    SortAscending({i \in DOMAIN series :
                      \E p \in Range(series[i].Points) : p.Timestamp = ts})

\* The value a series has at ts: that of its first point there.
ValueAt(s, ts) ==
    LET k == CHOOSE k \in DOMAIN s.Points :
                /\ s.Points[k].Timestamp = ts
                /\ \A o \in 1..(k - 1) : s.Points[o].Timestamp # ts
    IN s.Points[k].Value.n

\* The sum of the values at ts of the series that have a point at ts.
TotalAt(series, ts) ==
    LET at == SeriesAt(series, ts)
    IN SeqSum([n \in DOMAIN at |-> ValueAt(series[at[n]], ts)])

\* out is one series without labels whose points are at the distinct
\* timestamps of the input, each once, in ascending order.
OneSeriesOverAllTimestamps(out, series) ==
    /\ Len(out) = 1
    /\ DOMAIN out[1].Labels = {}
    /\ Len(out[1].Points) = Cardinality(TimestampSet(series))
    /\ {p.Timestamp : p \in Range(out[1].Points)} = TimestampSet(series)
    /\ \A j \in 1..(Len(out[1].Points) - 1) :
          out[1].Points[j].Timestamp < out[1].Points[j + 1].Timestamp

\* C4: sum (avg) over a non-empty list of series returns exactly one series
\* with an empty label set whose points are, for each distinct timestamp of
\* the input in ascending order, the sum (the mean) of the values of exactly
\* the series that have a point at that timestamp; a series without a point
\* there is left out and not counted as zero.  A series with several points at
\* one timestamp enters with the first of them.
C4_SumAvgOverPresentSeries ==
    /\ last.op = "applySum" =>
          /\ OneSeriesOverAllTimestamps(last.out, last.series)
          /\ \A p \in Range(last.out[1].Points) :
                p.Value = Float(TotalAt(last.series, p.Timestamp))
    /\ last.op = "applyAvg" =>
          /\ OneSeriesOverAllTimestamps(last.out, last.series)
          /\ \A p \in Range(last.out[1].Points) :
                /\ p.Value.d > 0
                /\ p.Value.n * Len(SeriesAt(last.series, p.Timestamp))
                      = TotalAt(last.series, p.Timestamp) * p.Value.d

\* avg of a series with the points (0s, 3), (5s, 3) and a series with the
\* single point (0s, 4): 7/2 at 0s and, the second series left out, 3 at 5s.
C4_Witness ==
    /\ last.op = "applyAvg"
    /\ Len(last.series) = 2
    /\ Len(last.series[1].Points) = 2
    /\ Len(last.series[2].Points) = 1
    /\ last.series[1].Points[1] = MetricPoint(SecondsOf(0), Float(3), [service |-> "a"])
    /\ last.series[1].Points[2] = MetricPoint(SecondsOf(5), Float(3), [service |-> "a"])
    /\ last.series[2].Points[1] = MetricPoint(SecondsOf(0), Float(4), [service |-> "b"])
    /\ Len(last.out[1].Points) = 2
    /\ last.out[1].Points[1].Value = [n |-> 7, d |-> 2]
    /\ last.out[1].Points[2].Value = Float(3)

(***************************************************************************)
(* The query parser.  A string is the sequence of its characters; indexes  *)
(* are Go's: the first character is at 0 and -1 says "not found".          *)
(***************************************************************************)
Whitespace == {" ", "\t", "\n"}

\* s[from:to]
Slice(s, from, to) == SubSeq(s, from + 1, to)

RECURSIVE TrimLeft(_)
TrimLeft(s) ==
    IF s # <<>> /\ s[1] \in Whitespace THEN TrimLeft(Tail(s)) ELSE s

RECURSIVE TrimRight(_)
TrimRight(s) ==
    IF s # <<>> /\ s[Len(s)] \in Whitespace
    THEN TrimRight(SubSeq(s, 1, Len(s) - 1)) ELSE s

TrimSpace(s) == TrimRight(TrimLeft(s))

Contains(s, c) == \E i \in 1..Len(s) : s[i] = c

Index(s, c) ==
    IF Contains(s, c)
    THEN (CHOOSE i \in 1..Len(s) : s[i] = c /\ \A k \in 1..(i - 1) : s[k] # c) - 1
    ELSE -1

LastIndex(s, c) ==
    IF Contains(s, c)
    THEN (CHOOSE i \in 1..Len(s) :
             s[i] = c /\ \A k \in (i + 1)..Len(s) : s[k] # c) - 1
    ELSE -1

RECURSIVE Split(_, _)
Split(s, c) ==
    LET i == Index(s, c)
    IN IF i = -1 THEN <<s>>
       ELSE <<Slice(s, 0, i)>> \o Split(Slice(s, i + 1, Len(s)), c)

\* strings.SplitN(s, c, 2)
SplitN2(s, c) ==
    LET i == Index(s, c)
    IN IF i = -1 THEN <<s>> ELSE <<Slice(s, 0, i), Slice(s, i + 1, Len(s))>>

HasSuffix(s, c) == s # <<>> /\ s[Len(s)] = c

HasPrefix(s, prefix) ==
    Len(s) >= Len(prefix) /\ SubSeq(s, 1, Len(prefix)) = prefix

Digits == <<"0", "1", "2", "3", "4", "5", "6", "7", "8", "9">>

DigitValue(c) == (CHOOSE d \in 1..Len(Digits) : Digits[d] = c) - 1

RECURSIVE DecimalValue(_)
DecimalValue(s) ==
    IF s = <<>> THEN 0
    ELSE Len(Digits) * DecimalValue(SubSeq(s, 1, Len(s) - 1)) + DigitValue(s[Len(s)])

ErrSyntax == "invalid syntax"

\* strconv.Atoi: an optional sign and one or more decimal digits.
Atoi(s) ==
    LET signed == s # <<>> /\ s[1] \in {"+", "-"}
        digits == IF signed THEN Tail(s) ELSE s
    IN IF digits = <<>> \/ \E i \in 1..Len(digits) : digits[i] \notin Range(Digits)
       THEN [err |-> ErrSyntax, val |-> 0]
       ELSE [err |-> NoError,
             val |-> IF signed /\ s[1] = "-" THEN -DecimalValue(digits)
                     ELSE DecimalValue(digits)]

Second == NanosPerSecond

Minute == 60 * Second

Hour == 60 * Minute

ErrEmptyQuery == "empty query"
ErrFunctionSyntax == "invalid function syntax"
ErrClosingParenthesis == "missing closing parenthesis"
ErrFunctionArgument == "invalid function argument"
ErrClosingBracket == "missing closing bracket in range selector"
ErrClosingBrace == "missing closing brace in label selector"
ErrLabelSelector == "invalid label selector"
ErrRangeDuration == "invalid range duration"
ErrEmptyDuration == "empty duration"
ErrInvalidDuration == "time: invalid duration"
ErrAggregationSyntax == "invalid aggregation syntax"

NoQuery == <<>>

ParsedQuery(metricName, labels, function, rangeDuration) ==
    [MetricName |-> metricName, Labels |-> labels, Function |-> function,
     Range |-> rangeDuration, Aggregation |-> NoAggregation]

Parsed(q) == [err |-> NoError, query |-> <<q>>]

ParseFailed(err) == [err |-> err, query |-> NoQuery]

\* time.ParseDuration, on the strings that reach it: those that end in none
\* of s, m, h, d.  Every unit of the generic syntax (ns, us, ms, s, m, h)
\* ends in one of these, which leaves the unitless zero.
ParseDuration(s) ==
    LET unsigned == IF s # <<>> /\ s[1] \in {"+", "-"} THEN Tail(s) ELSE s
    IN IF unsigned = <<"0">> THEN [err |-> NoError, val |-> 0]
       ELSE [err |-> ErrInvalidDuration, val |-> 0]

DurationOf(count, unit) ==
    IF count.err # NoError THEN [err |-> count.err, val |-> 0]
    ELSE [err |-> NoError, val |-> count.val * unit]

parseDuration(text) ==
    LET duration == TrimSpace(text)
        count == Atoi(Slice(duration, 0, Len(duration) - 1))
    IN IF duration = <<>> THEN [err |-> ErrEmptyDuration, val |-> 0]
       ELSE IF HasSuffix(duration, "s") THEN DurationOf(count, Second)
       ELSE IF HasSuffix(duration, "m") THEN DurationOf(count, Minute)
       ELSE IF HasSuffix(duration, "h") THEN DurationOf(count, Hour)
       ELSE IF HasSuffix(duration, "d") THEN DurationOf(count, 24 * Hour)
       ELSE ParseDuration(duration)

Unquote(value) ==
    IF Len(value) >= 2 /\ value[1] = "\"" /\ value[Len(value)] = "\""
    THEN Slice(value, 1, Len(value) - 1)
    ELSE value

RECURSIVE parseLabelPairs(_, _, _)
parseLabelPairs(pairs, i, labels) ==
    IF i > Len(pairs) THEN [err |-> NoError, labels |-> labels]
    ELSE LET pair == TrimSpace(pairs[i])
             parts == SplitN2(pair, "=")
         IN IF pair = <<>> THEN parseLabelPairs(pairs, i + 1, labels)
            ELSE IF Len(parts) # 2
            THEN [err |-> ErrLabelSelector, labels |-> EmptyLabels]
            ELSE parseLabelPairs(pairs, i + 1,
                    (TrimSpace(parts[1]) :> Unquote(TrimSpace(parts[2]))) @@ labels)

parseLabels(selector) ==
    IF selector = <<>> THEN [err |-> NoError, labels |-> EmptyLabels]
    ELSE parseLabelPairs(Split(selector, ","), 1, EmptyLabels)

parseMetricWithLabels(query) ==
    LET labelStart == Index(query, "{")
        labelEnd == Index(query, "}")
        metricName == TrimSpace(Slice(query, 0, labelStart))
        labels == parseLabels(TrimSpace(Slice(query, labelStart + 1, labelEnd)))
    IN IF labelStart = -1
       THEN Parsed(ParsedQuery(TrimSpace(query), EmptyLabels, <<>>, 0))
       ELSE IF labelEnd = -1 THEN ParseFailed(ErrClosingBrace)
       ELSE IF labels.err # NoError THEN ParseFailed(labels.err)
       ELSE Parsed(ParsedQuery(metricName, labels.labels, <<>>, 0))

parseMetricWithRange(query) ==
    LET rangeStart == Index(query, "[")
        rangeEnd == Index(query, "]")
        metricQuery == parseMetricWithLabels(TrimSpace(Slice(query, 0, rangeStart)))
        duration == parseDuration(TrimSpace(Slice(query, rangeStart + 1, rangeEnd)))
    IN IF rangeStart = -1 THEN parseMetricWithLabels(query) @@ [duration |-> 0]
       ELSE IF rangeEnd = -1
       THEN ParseFailed(ErrClosingBracket) @@ [duration |-> 0]
       ELSE IF metricQuery.err # NoError
       THEN ParseFailed(metricQuery.err) @@ [duration |-> 0]
       ELSE IF duration.err # NoError
       THEN ParseFailed(ErrRangeDuration) @@ [duration |-> 0]
       ELSE metricQuery @@ [duration |-> duration.val]

parseFunction(query) ==
    LET openParen == Index(query, "(")
        funcName == TrimSpace(Slice(query, 0, openParen))
        closeParen == LastIndex(query, ")")
        arg == parseMetricWithRange(TrimSpace(Slice(query, openParen + 1, closeParen)))
    IN IF openParen = -1 THEN ParseFailed(ErrFunctionSyntax)
       ELSE IF closeParen = -1 \/ closeParen <= openParen
       THEN ParseFailed(ErrClosingParenthesis)
       ELSE IF arg.err # NoError THEN ParseFailed(ErrFunctionArgument)
       ELSE Parsed(ParsedQuery(arg.query[1].MetricName, arg.query[1].Labels,
                               funcName, arg.duration))

Parse(text) ==
    LET query == TrimSpace(text)
    IN IF query = <<>> THEN ParseFailed(ErrEmptyQuery)
       ELSE IF Contains(query, "(") /\ Contains(query, ")") THEN parseFunction(query)
       ELSE IF ~Contains(query, "{")
       THEN Parsed(ParsedQuery(query, EmptyLabels, <<>>, 0))
       ELSE parseMetricWithLabels(query)

TrimEach(labels) == [i \in 1..Len(labels) |-> TrimSpace(labels[i])]

ParseAggregation(text) ==
    LET query == TrimSpace(text)
        openParen == Index(query, "(")
        funcName == TrimSpace(Slice(query, 0, openParen))
        closeParen == LastIndex(query, ")")
        parsedQuery == Parse(TrimSpace(Slice(query, openParen + 1, closeParen)))
        remaining == TrimSpace(Slice(query, closeParen + 1, Len(query)))
        byStart == Index(remaining, "(")
        byEnd == Index(remaining, ")")
        byClause ==
            IF /\ closeParen < Len(query) - 1
               /\ HasPrefix(remaining, <<"b", "y">>)
               /\ byStart # -1
               /\ byEnd # -1
            THEN TrimSpace(Slice(remaining, byStart + 1, byEnd))
            ELSE <<>>
        byLabels == IF byClause # <<>> THEN TrimEach(Split(byClause, ",")) ELSE <<>>
    IN IF openParen = -1 THEN ParseFailed(ErrAggregationSyntax)
       ELSE IF closeParen = -1 THEN ParseFailed(ErrClosingParenthesis)
       ELSE IF parsedQuery.err # NoError THEN ParseFailed(parsedQuery.err)
       ELSE Parsed([parsedQuery.query[1] EXCEPT
                       !.Aggregation = <<[Operation |-> funcName, By |-> byLabels]>>])

(***************************************************************************)
(* The parser specification: query strings are parsed one at a time.       *)
(***************************************************************************)
HttpRequestsTotal ==
    <<"h", "t", "t", "p", "_", "r", "e", "q", "u", "e", "s", "t", "s", "_",
      "t", "o", "t", "a", "l">>

MetricNames == {HttpRequestsTotal, <<"u", "p">>, <<"a", ":", "b", "2">>}

LabelKeys == <<<<"j", "o", "b">>, <<"k">>, <<"e", "n", "v">>, <<"k", "2">>>>

ValueAlphabet == {"a", "1", ",", "="}

Strings(alphabet, max) == UNION {[1..n -> alphabet] : n \in 0..max}

LabelValues == Strings(ValueAlphabet, MaxValueLen)

\* Lists of up to max pairs, the i-th one of the i-th key.
PairLists(values, max) ==
    UNION {{[i \in 1..n |-> <<LabelKeys[i], vs[i]>>] : vs \in [1..n -> values]} :
              n \in 0..max}

RECURSIVE Join(_, _)
Join(parts, sep) ==
    IF parts = <<>> THEN <<>>
    ELSE IF Len(parts) = 1 THEN parts[1]
    ELSE parts[1] \o sep \o Join(Tail(parts), sep)

Quote(value) == <<"\"">> \o value \o <<"\"">>

\* {k1="v1",...,kn="vn"}
Selector(pairs) ==
    <<"{">>
    \o Join([i \in 1..Len(pairs) |-> pairs[i][1] \o <<"=">> \o Quote(pairs[i][2])],
            <<",">>)
    \o <<"}">>

BareQueries ==
    {[text |-> name, kind |-> "bare", name |-> name, pairs |-> <<>>] :
        name \in MetricNames}

SelectorQueries ==
    {[text |-> name \o Selector(pairs), kind |-> "selector", name |-> name,
      pairs |-> pairs] :
        name \in {HttpRequestsTotal}, pairs \in PairLists(LabelValues, MaxPairs)}

FunctionNames == {<<"r", "a", "t", "e">>, <<"f", "o", "o">>}

Counts == UNION {[1..n -> Range(Digits)] : n \in 1..MaxDigits}

Units == {"s", "m", "h", "d"}

\* The selectors of the range and aggregation queries: none, or one pair.
SimplePairLists == PairLists({<<"a">>}, 1)

RangePairLists == PairLists({<<"a">>, <<",">>}, 1)

\* f(name[Nu]) and f(name{selector}[Nu])
RangeQueries ==
    {[text |-> f \o <<"(">> \o name
                 \o (IF selected THEN Selector(pairs) ELSE <<>>)
                 \o <<"[">> \o count \o <<unit>> \o <<"]">> \o <<")">>,
      kind |-> "range", function |-> f, name |-> name,
      pairs |-> IF selected THEN pairs ELSE <<>>, count |-> count, unit |-> unit] :
        f \in FunctionNames, name \in {HttpRequestsTotal},
        selected \in BOOLEAN, pairs \in RangePairLists,
        count \in Counts, unit \in Units}

InvalidDurations ==
    {<<>>, <<" ">>, <<"x">>, <<"5">>, <<"m">>, <<"5", "x">>, <<"5", "m", "s">>,
     <<"1", ".", "5", "h">>, <<"5", " ", "m">>, <<"m", "5">>}

BadRangeQueries ==
    {[text |-> f \o <<"(">> \o name \o <<"[">> \o text \o <<"]">> \o <<")">>,
      kind |-> "badrange", function |-> f, name |-> name, rangeText |-> text] :
        f \in FunctionNames, name \in MetricNames, text \in InvalidDurations}

GroupingLabels == {<<"s", "e", "r", "v", "i", "c", "e">>, <<"j", "o", "b">>}

Paddings == {<<<<>>, <<>>>>, <<<<" ">>, <<>>>>, <<<<>>, <<" ">>>>}

ByLists ==
    UNION {[1..n -> GroupingLabels \X Paddings] : n \in 1..MaxBy}

\* agg(q) by (l1, ..., ln), each label within its padding
AggregationQueries ==
    {[text |-> agg \o <<"(">> \o name
                 \o (IF selected THEN Selector(pairs) ELSE <<>>)
                 \o <<")", " ", "b", "y", " ", "(">>
                 \o Join([i \in 1..Len(by) |->
                            by[i][2][1] \o by[i][1] \o by[i][2][2]], <<",">>)
                 \o <<")">>,
      kind |-> "aggregation", agg |-> agg, name |-> name,
      pairs |-> IF selected THEN pairs ELSE <<>>,
      by |-> [i \in 1..Len(by) |-> by[i][1]]] :
        agg \in {<<"s", "u", "m">>, <<"a", "v", "g">>, <<"c", "o", "u", "n", "t">>,
                 <<"m", "i", "n">>, <<"m", "a", "x">>},
        name \in {HttpRequestsTotal}, selected \in BOOLEAN,
        pairs \in SimplePairLists, by \in ByLists}

CallParse(input) ==
    /\ last' = [op |-> "Parse", input |-> input, out |-> Parse(input.text)]
    /\ UNCHANGED <<metrics, traces, logs, seq, now>>

CallParseAggregation(input) ==
    /\ last' = [op |-> "ParseAggregation", input |-> input,
                out |-> ParseAggregation(input.text)]
    /\ UNCHANGED <<metrics, traces, logs, seq, now>>

NextParse ==
    \/ Idle /\ \E input \in BareQueries : CallParse(input)
    \/ Idle /\ \E input \in SelectorQueries : CallParse(input)
    \/ Idle /\ \E input \in RangeQueries : CallParse(input)
    \/ Idle /\ \E input \in BadRangeQueries : CallParse(input)
    \/ Idle /\ \E input \in AggregationQueries : CallParse(input)
    \/ Idle /\ \E input \in AggregationQueries : CallParseAggregation(input)
    \/ Return

SpecParse == Init /\ [][NextParse]_vars

RECURSIVE LabelMap(_)
LabelMap(pairs) ==
    IF pairs = <<>> THEN EmptyLabels
    ELSE (pairs[Len(pairs)][1] :> pairs[Len(pairs)][2])
            @@ LabelMap(SubSeq(pairs, 1, Len(pairs) - 1))

\* C5: Parse of a bare name returns that metric name with an empty label map;
\* Parse of name{k1="v1",...,kn="vn"} returns the name with exactly the label
\* map k1: v1, ..., kn: vn, the quotes of the values stripped, whatever
\* letters, digits and punctuation the quoted values hold; name{} returns the
\* name with no constraints.
C5_SelectorGivesLabelMap ==
    last.op = "Parse" /\ last.input.kind \in {"bare", "selector"} =>
        /\ last.out.err = NoError
        /\ last.out.query # NoQuery
        /\ last.out.query[1].MetricName = last.input.name
        /\ last.out.query[1].Labels = LabelMap(last.input.pairs)

\* What does hold: a selector whose quoted values hold no comma gives its
\* label map.
C5_CommaFreeSelectorGivesLabelMap ==
    /\ last.op = "Parse"
    /\ last.input.kind \in {"bare", "selector"}
    /\ \A i \in 1..Len(last.input.pairs) : ~Contains(last.input.pairs[i][2], ",")
    => /\ last.out.err = NoError
       /\ last.out.query # NoQuery
       /\ last.out.query[1].MetricName = last.input.name
       /\ last.out.query[1].Labels = LabelMap(last.input.pairs)

UnitDuration(unit) ==
    IF unit = "s" THEN Second
    ELSE IF unit = "m" THEN 60 * Second
    ELSE IF unit = "h" THEN 3600 * Second
    ELSE 86400 * Second

\* C6: Parse of f(name[Nu]) or f(name{selector}[Nu]), N a non-negative
\* integer literal and u one of s, m, h, d, returns function f verbatim, the
\* metric name, the selector's label map and a range of N seconds, minutes,
\* hours or days; when the text between the brackets is empty or no valid
\* duration, Parse returns an error and no query.
C6_RangeSelectorGivesDuration ==
    /\ last.op = "Parse" /\ last.input.kind = "range" =>
          /\ last.out.err = NoError
          /\ last.out.query
                = <<ParsedQuery(last.input.name, LabelMap(last.input.pairs),
                                last.input.function,
                                DecimalValue(last.input.count)
                                    * UnitDuration(last.input.unit))>>
    /\ last.op = "Parse" /\ last.input.kind = "badrange" =>
          /\ last.out.err # NoError
          /\ last.out.query = NoQuery

\* What does hold: the same with a selector whose quoted values hold no
\* comma.
C6_CommaFreeRangeSelectorGivesDuration ==
    /\ last.op = "Parse" /\ last.input.kind = "range"
       /\ (\A i \in 1..Len(last.input.pairs) : ~Contains(last.input.pairs[i][2], ","))
       => /\ last.out.err = NoError
          /\ last.out.query
                = <<ParsedQuery(last.input.name, LabelMap(last.input.pairs),
                                last.input.function,
                                DecimalValue(last.input.count)
                                    * UnitDuration(last.input.unit))>>
    /\ last.op = "Parse" /\ last.input.kind = "badrange" =>
          /\ last.out.err # NoError
          /\ last.out.query = NoQuery

\* rate(http_requests_total[5m]) gives function rate and a range of 300 s.
C6_Example ==
    last.op = "Parse" /\ last.input.kind = "range"
    /\ last.input.text
          = <<"r", "a", "t", "e", "(">> \o HttpRequestsTotal
               \o <<"[", "5", "m", "]", ")">>
    => /\ last.out.query # NoQuery
       /\ last.out.query[1].Function = <<"r", "a", "t", "e">>
       /\ last.out.query[1].MetricName = HttpRequestsTotal
       /\ last.out.query[1].Range = 300 * NanosPerSecond

\* C7: parsing agg(q) by (l1, ..., ln), agg one of sum, avg, count, min, max,
\* succeeds and returns q's metric name and labels with an aggregation of
\* operation agg and grouping list l1, ..., ln, each label trimmed.
C7_AggregationWithGrouping ==
    last.op = "ParseAggregation" =>
        /\ last.out.err = NoError
        /\ last.out.query # NoQuery
        /\ last.out.query[1].MetricName = last.input.name
        /\ last.out.query[1].Labels = LabelMap(last.input.pairs)
        /\ last.out.query[1].Aggregation
              = <<[Operation |-> last.input.agg, By |-> last.input.by]>>

(***************************************************************************)
(* Ingestion: the HTTP adapter (ingestion/service.go) and the gRPC         *)
(* services.  A handler is one step; the storage calls it makes, in order, *)
(* are kept in last.calls.  fails[i] says that the i-th call to storage    *)
(* the handler makes returns an error.                                     *)
(***************************************************************************)
\* UnixNano of the zero time.Time (scaled from -6795364578871345152).
ZeroTime == -(2 ^ 20)

\* The largest time.Duration (scaled from 2^63 - 1).
MaxDuration == 2 ^ 30

\* time.Parse(time.RFC3339Nano, s) on a wire string: a string in that layout
\* parses; a string of decimal nanoseconds or any other text gives an error
\* and the zero time.
TimeParse(wire) ==
    IF wire.kind = "rfc3339" THEN [err |-> NoError, t |-> wire.nanos]
    ELSE [err |-> "parsing time", t |-> ZeroTime]

\* t.Sub(u), which saturates.
Sub(t, u) ==
    IF t = u THEN 0
    ELSE IF u = ZeroTime THEN MaxDuration
    ELSE IF t = ZeroTime THEN -MaxDuration
    ELSE t - u

Call(record, failed) == [record |-> record, failed |-> failed]

RowOf(kind, id, record) ==
    CASE kind = "metrics" -> MetricRow(id, record)
      [] kind = "traces" -> TraceRow(id, record)
      [] kind = "logs" -> LogRow(id, record)

RECURSIVE Stored(_, _, _, _)
\* The table after the calls: each one that does not fail appends its row.
Stored(kind, rows, id, calls) ==
    IF calls = <<>> THEN rows
    ELSE IF Head(calls).failed THEN Stored(kind, rows, id, Tail(calls))
    ELSE Stored(kind, Append(rows, RowOf(kind, id + 1, Head(calls).record)),
                id + 1, Tail(calls))

StoreAll(kind, calls) ==
    LET after == Stored(kind, Table(kind), seq[kind], calls)
    IN /\ metrics' = IF kind = "metrics" THEN after ELSE metrics
       /\ traces' = IF kind = "traces" THEN after ELSE traces
       /\ logs' = IF kind = "logs" THEN after ELSE logs
       /\ seq' = [seq EXCEPT ![kind] = @ + Len(after) - Len(Table(kind))]
       /\ now' = now

\* The rows the calls add to the table.
Added(kind, calls) ==
    LET after == Stored(kind, Table(kind), seq[kind], calls)
    IN SubSeq(after, Len(Table(kind)) + 1, Len(after))

\* extractServiceNameFromResource (HTTP) and extractServiceName (gRPC): the
\* value of the first service.name attribute; the gRPC services pass over an
\* empty one.
RECURSIVE ServiceNameOf(_, _)
ServiceNameOf(adapter, attributes) ==
    IF attributes = <<>> THEN "unknown"
    ELSE IF /\ Head(attributes).Key = "service.name"
            /\ (adapter = "http" \/ Head(attributes).Value # "")
         THEN Head(attributes).Value
         ELSE ServiceNameOf(adapter, Tail(attributes))

RECURSIVE convertAttributes(_)
\* The JSON object of the attributes, kept as the map it denotes.
convertAttributes(attributes) ==
    IF attributes = <<>> THEN EmptyLabels
    ELSE (attributes[Len(attributes)].Key :> attributes[Len(attributes)].Value)
            @@ convertAttributes(SubSeq(attributes, 1, Len(attributes) - 1))

RECURSIVE Records(_)
\* The records of a request in the order the nested loops visit them, each
\* with the attributes of its resource.
Records(resources) ==
    IF resources = <<>> THEN <<>>
    ELSE [i \in 1..Len(Head(resources).Records) |->
             [resource |-> Head(resources).Resource,
              record |-> Head(resources).Records[i]]]
         \o Records(Tail(resources))

StatusOK == [code |-> 200, status |-> "success"]

StatusBadRequest == [code |-> 400, status |-> "error"]

\* c.ShouldBindJSON: the timestamps are declared as strings, and a JSON
\* number in their place fails the binding of the whole request.
ShouldBindJSON(req, fields) ==
    \A r \in Range(Records(req)), f \in fields : r.record[f].kind # "number"

RejectedRequest(op, req) ==
    /\ last' = [op |-> op, input |-> req, calls |-> <<>>, added |-> <<>>,
                response |-> StatusBadRequest]
    /\ UNCHANGED <<metrics, traces, logs, seq, now>>

\* Every record is handed to storage; an error is logged and the loop goes on.
InsertEach(records, fails) ==
    [i \in 1..Len(records) |-> Call(records[i], fails[i])]

HTTPTrace(r) ==
    LET startTime == TimeParse(r.record.StartTimeUnixNano).t
        endTime == TimeParse(r.record.EndTimeUnixNano).t
    IN [TraceID |-> r.record.TraceId, SpanID |-> r.record.SpanId,
        ParentSpanID |-> r.record.ParentSpanId,
        ServiceName |-> ServiceNameOf("http", r.resource),
        OperationName |-> r.record.Name, StartTime |-> startTime,
        DurationNanos |-> Sub(endTime, startTime),
        Attributes |-> convertAttributes(r.record.Attributes),
        StatusCode |-> r.record.Status]

HandleTraces(req, fails) ==
    LET spans == Records(req)
        calls == InsertEach([i \in 1..Len(spans) |-> HTTPTrace(spans[i])], fails)
    IN IF ~ShouldBindJSON(req, {"StartTimeUnixNano", "EndTimeUnixNano"})
       THEN RejectedRequest("HandleTraces", req)
       ELSE /\ StoreAll("traces", calls)
            /\ last' = [op |-> "HandleTraces", input |-> req, calls |-> calls,
                        added |-> Added("traces", calls),
                        response |-> StatusOK]

HTTPDataPoint(name, resource, dataPoint) ==
    [MetricName |-> name, Value |-> dataPoint.AsDouble,
     Timestamp |-> TimeParse(dataPoint.TimeUnixNano).t,
     ServiceName |-> ServiceNameOf("http", resource),
     Labels |-> convertAttributes(dataPoint.Attributes)]

RECURSIVE HTTPDataPoints(_)
\* The data points of the metrics in the order visited: of each metric the
\* gauge points, then the sum points.
HTTPDataPoints(ms) ==
    IF ms = <<>> THEN <<>>
    ELSE LET m == Head(ms).record
             points == m.Gauge \o m.Sum
         IN [i \in 1..Len(points) |->
                HTTPDataPoint(m.Name, Head(ms).resource, points[i])]
            \o HTTPDataPoints(Tail(ms))

HandleMetrics(req, fails) ==
    LET calls == InsertEach(HTTPDataPoints(Records(req)), fails)
    IN IF \E m \in Range(Records(req)) :
             \E d \in Range(m.record.Gauge \o m.record.Sum) :
                d.TimeUnixNano.kind = "number"
       THEN RejectedRequest("HandleMetrics", req)
       ELSE /\ StoreAll("metrics", calls)
            /\ last' = [op |-> "HandleMetrics", input |-> req, calls |-> calls,
                        added |-> Added("metrics", calls),
                        response |-> StatusOK]

HTTPLog(r) ==
    [Timestamp |-> TimeParse(r.record.TimeUnixNano).t,
     ServiceName |-> ServiceNameOf("http", r.resource),
     Level |-> r.record.SeverityText, Message |-> r.record.Body,
     Attributes |-> convertAttributes(r.record.Attributes),
     TraceID |-> r.record.TraceId, SpanID |-> r.record.SpanId]

HandleLogs(req, fails) ==
    LET records == Records(req)
        calls == InsertEach([i \in 1..Len(records) |-> HTTPLog(records[i])], fails)
    IN IF ~ShouldBindJSON(req, {"TimeUnixNano"})
       THEN RejectedRequest("HandleLogs", req)
       ELSE /\ StoreAll("logs", calls)
            /\ last' = [op |-> "HandleLogs", input |-> req, calls |-> calls,
                        added |-> Added("logs", calls),
                        response |-> StatusOK]

\* The response of an Export: no error and nothing reported as rejected.
ExportResponse == [err |-> NoError, rejected |-> 0]

\* time.Unix(nanos, 0): the count read as seconds.
UnixSeconds(nanos) == nanos * NanosPerSecond

\* time.Unix(0, nanos): the instant that many nanoseconds after the epoch.
UnixNanos(nanos) == nanos

\* convertStatusCode: the text of a span status; nil is a missing status.
convertStatusCode(status) ==
    CASE status = "nil" -> "UNSET"
      [] status = "STATUS_CODE_UNSET" -> "UNSET"
      [] status = "STATUS_CODE_OK" -> "OK"
      [] status = "STATUS_CODE_ERROR" -> "ERROR"
      [] OTHER -> "UNKNOWN"

\* The largest uint64 (scaled from 2^64 - 1, as int64 is).
MaxUint64 == 2 * MaxInt64 + 1

\* int64(span.EndTimeUnixNano - span.StartTimeUnixNano): the subtraction is
\* one of uint64 values and wraps, and so does the conversion to int64.
DurationBetween(start, end) == Int64((end - start) % (MaxUint64 + 1))

processSpan(r) ==
    [TraceID |-> r.record.TraceId, SpanID |-> r.record.SpanId,
     ParentSpanID |-> r.record.ParentSpanId,
     ServiceName |-> ServiceNameOf("grpc", r.resource),
     OperationName |-> r.record.Name,
     StartTime |-> UnixNanos(r.record.StartTimeUnixNano),
     DurationNanos |-> DurationBetween(r.record.StartTimeUnixNano,
                                       r.record.EndTimeUnixNano),
     Attributes |-> convertAttributes(r.record.Attributes),
     StatusCode |-> convertStatusCode(r.record.Status)]

TraceServiceExport(req, fails) ==
    LET spans == Records(req)
        calls == InsertEach([i \in 1..Len(spans) |-> processSpan(spans[i])], fails)
    IN /\ StoreAll("traces", calls)
       /\ last' = [op |-> "TraceService.Export", input |-> req, calls |-> calls,
                        added |-> Added("traces", calls),
                   response |-> ExportResponse]

convertSeverityText(severityText) ==
    IF severityText = "" THEN "INFO" ELSE severityText

processLogRecord(r) ==
    [Timestamp |-> UnixNanos(r.record.TimeUnixNano),
     ServiceName |-> ServiceNameOf("grpc", r.resource),
     Level |-> convertSeverityText(r.record.SeverityText), Message |-> r.record.Body,
     Attributes |-> convertAttributes(r.record.Attributes),
     TraceID |-> r.record.TraceId, SpanID |-> r.record.SpanId]

LogsServiceExport(req, fails) ==
    LET records == Records(req)
        calls == InsertEach([i \in 1..Len(records) |-> processLogRecord(records[i])],
                            fails)
    IN /\ StoreAll("logs", calls)
       /\ last' = [op |-> "LogsService.Export", input |-> req, calls |-> calls,
                        added |-> Added("logs", calls),
                   response |-> ExportResponse]

DerivedMetric(name, suffix, value, labels, dataPoint, serviceName) ==
    [MetricName |-> name \o suffix, Value |-> value,
     Timestamp |-> UnixNanos(dataPoint.TimeUnixNano), ServiceName |-> serviceName,
     Labels |-> labels @@ convertAttributes(dataPoint.Attributes)]

\* The metrics one data point gives, in the order they are inserted.
DataPointMetrics(type, name, d, serviceName) ==
    LET count == <<DerivedMetric(name, "_count", d.Count, EmptyLabels, d, serviceName)>>
        sum == IF d.Sum # 0
               THEN <<DerivedMetric(name, "_sum", d.Sum, EmptyLabels, d, serviceName)>>
               ELSE <<>>
    IN CASE type \in {"gauge", "sum"} ->
              <<DerivedMetric(name, "", d.Value, EmptyLabels, d, serviceName)>>
         [] type = "histogram" ->
              count \o sum
              \o [i \in 1..(IF Len(d.BucketCounts) < Len(d.ExplicitBounds)
                            THEN Len(d.BucketCounts) ELSE Len(d.ExplicitBounds)) |->
                    DerivedMetric(name, "_bucket", d.BucketCounts[i],
                                  [le |-> d.ExplicitBounds[i]], d, serviceName)]
         [] type = "exponential_histogram" -> count \o sum
         [] type = "summary" ->
              count \o sum
              \o [i \in 1..Len(d.QuantileValues) |->
                    DerivedMetric(name, "_quantile", d.QuantileValues[i].Value,
                                  [quantile |-> d.QuantileValues[i].Quantile],
                                  d, serviceName)]
         [] OTHER -> <<>>

RECURSIVE MetricRecords(_, _, _, _)
MetricRecords(type, name, dataPoints, serviceName) ==
    IF dataPoints = <<>> THEN <<>>
    ELSE DataPointMetrics(type, name, Head(dataPoints), serviceName)
         \o MetricRecords(type, name, Tail(dataPoints), serviceName)

RECURSIVE AllMetricRecords(_)
\* The records of all metrics of a request.
AllMetricRecords(ms) ==
    IF ms = <<>> THEN <<>>
    ELSE MetricRecords(Head(ms).record.Type, Head(ms).record.Name,
                       Head(ms).record.DataPoints,
                       ServiceNameOf("grpc", Head(ms).resource))
         \o AllMetricRecords(Tail(ms))

RECURSIVE InsertUntilError(_, _, _)
\* processGaugeMetric and its siblings: the records are inserted in order and
\* the first error returns; made calls to storage came before.
InsertUntilError(records, fails, made) ==
    IF records = <<>> THEN <<>>
    ELSE <<Call(Head(records), fails[made + 1])>>
         \o (IF fails[made + 1] THEN <<>>
             ELSE InsertUntilError(Tail(records), fails, made + 1))

RECURSIVE processMetrics(_, _, _)
\* processResourceMetric over the metrics of all resources: the error of a
\* metric is logged and the next metric processed.
processMetrics(ms, fails, made) ==
    IF ms = <<>> THEN <<>>
    ELSE LET m == Head(ms).record
             calls == InsertUntilError(
                         MetricRecords(m.Type, m.Name, m.DataPoints,
                                       ServiceNameOf("grpc", Head(ms).resource)),
                         fails, made)
         IN calls \o processMetrics(Tail(ms), fails, made + Len(calls))

MetricsServiceExport(req, fails) ==
    LET calls == processMetrics(Records(req), fails, 0)
    IN /\ StoreAll("metrics", calls)
       /\ last' = [op |-> "MetricsService.Export", input |-> req, calls |-> calls,
                        added |-> Added("metrics", calls),
                   response |-> ExportResponse]

(***************************************************************************)
(* The ingestion specification: batches arrive at both adapters.           *)
(***************************************************************************)
ApiResource == <<[Key |-> "service.name", Value |-> "api"]>>

UnnamedResource == <<[Key |-> "service.name", Value |-> ""]>>

\* A resource without a service.name attribute.
HostResource == <<[Key |-> "host.name", Value |-> "h1"]>>

\* The requests over the given record lists: all records under one resource,
\* or the first under one resource and the rest under another.
Requests(recordLists) ==
    {<<[Resource |-> r, Records |-> rs]>> :
        r \in {ApiResource, UnnamedResource}, rs \in recordLists}
    \cup {<<[Resource |-> ApiResource, Records |-> <<Head(rs)>>],
            [Resource |-> UnnamedResource, Records |-> Tail(rs)]>> :
            rs \in {l \in recordLists : Len(l) > 1}}
    \cup {<<[Resource |-> HostResource, Records |-> <<Head(rs)>>],
            [Resource |-> ApiResource, Records |-> Tail(rs)]>> :
            rs \in {l \in recordLists : Len(l) > 1}}

Lists(S, max) == UNION {[1..n -> S] : n \in 1..max}

RecordIds == <<"r1", "r2", "r3", "r4">>

WireTimes ==
    {[kind |-> k, nanos |-> SecondsOf(1)] :
        k \in {"rfc3339", "decimal", "garbage", "number"}}

WireSpan(id, t) ==
    [TraceId |-> "t1", SpanId |-> id, ParentSpanId |-> "", Name |-> "op",
     StartTimeUnixNano |-> t,
     EndTimeUnixNano |-> [t EXCEPT !.nanos = @ + Second],
     Status |-> "OK", Attributes |-> <<>>]

WireSpanLists ==
    {[i \in 1..Len(ts) |-> WireSpan(RecordIds[i], ts[i])] : ts \in Lists(WireTimes, MaxBatch)}

WireDataPoint(t) ==
    [TimeUnixNano |-> t, AsDouble |-> 3,
     Attributes |-> <<[Key |-> "env", Value |-> "prod"]>>]

WireMetricLists ==
    {<<[Name |-> "m", Gauge |-> [i \in 1..Len(ts) |-> WireDataPoint(ts[i])],
        Sum |-> <<>>]>> : ts \in Lists(WireTimes, MaxBatch)}
    \cup {<<[Name |-> "m", Gauge |-> <<WireDataPoint(t)>>, Sum |-> <<>>],
            [Name |-> "c", Gauge |-> <<>>, Sum |-> <<WireDataPoint(t)>>]>> :
            t \in WireTimes}

WireLog(id, t) ==
    [TimeUnixNano |-> t, SeverityText |-> "INFO", Body |-> id,
     Attributes |-> <<>>, TraceId |-> "", SpanId |-> ""]

WireLogLists ==
    {[i \in 1..Len(ts) |-> WireLog(RecordIds[i], ts[i])] : ts \in Lists(WireTimes, MaxBatch)}

ProtoTimes == {0, SecondsOf(1)}

\* The status of the i-th span of a batch; "nil" is a span without status.
StatusCodes == <<"STATUS_CODE_OK", "nil", "STATUS_CODE_ERROR", "STATUS_CODE_UNSET">>

ProtoSpan(id, t, status) ==
    [TraceId |-> "t1", SpanId |-> id, ParentSpanId |-> "", Name |-> "op",
     StartTimeUnixNano |-> t, EndTimeUnixNano |-> t + Second,
     Status |-> status, Attributes |-> <<[Key |-> "peer", Value |-> "db"]>>]

ProtoSpanLists ==
    {[i \in 1..Len(ts) |-> ProtoSpan(RecordIds[i], ts[i], StatusCodes[i])] :
        ts \in Lists(ProtoTimes, MaxBatch)}

\* The severity text of the i-th log record of a batch.
SeverityTexts == <<"WARN", "", "ERROR", "INFO">>

ProtoLog(id, t, severityText) ==
    [TimeUnixNano |-> t, SeverityText |-> severityText, Body |-> id,
     Attributes |-> <<>>, TraceId |-> "t1", SpanId |-> ""]

ProtoLogLists ==
    {[i \in 1..Len(ts) |-> ProtoLog(RecordIds[i], ts[i], SeverityTexts[i])] :
        ts \in Lists(ProtoTimes, MaxBatch)}

ProtoDataPoint(value, sum) ==
    [TimeUnixNano |-> SecondsOf(1), Value |-> value, Count |-> 2, Sum |-> sum,
     BucketCounts |-> <<1, 1>>, ExplicitBounds |-> <<10>>,
     QuantileValues |-> <<[Quantile |-> 1, Value |-> value]>>,
     Attributes |-> <<>>]

ProtoMetrics ==
    {[Type |-> type, Name |-> "m", DataPoints |-> <<ProtoDataPoint(3, sum)>>] :
        type \in {"gauge", "sum", "histogram", "exponential_histogram", "summary",
                  "unknown"},
        sum \in {0, 5}}
    \cup {[Type |-> type, Name |-> "m",
           DataPoints |-> [i \in 1..n |-> ProtoDataPoint(i, 0)]] :
            type \in {"gauge", "sum"}, n \in 2..MaxBatch}

ProtoMetricLists == Lists(ProtoMetrics, MaxMetrics)

\* The failures of up to n calls.
Failures(n) == [1..n -> BOOLEAN]

\* A batch is taken in while storage holds fewer than MaxIngested rows.
Accepting == Idle /\ RowsInserted < MaxIngested

NextIngest ==
    \/ Accepting /\ \E req \in Requests(WireSpanLists) :
          \E fails \in Failures(Len(Records(req))) : HandleTraces(req, fails)
    \/ Accepting /\ \E req \in Requests(WireMetricLists) :
          \E fails \in Failures(Len(HTTPDataPoints(Records(req)))) :
             HandleMetrics(req, fails)
    \/ Accepting /\ \E req \in Requests(WireLogLists) :
          \E fails \in Failures(Len(Records(req))) : HandleLogs(req, fails)
    \/ Accepting /\ \E req \in Requests(ProtoSpanLists) :
          \E fails \in Failures(Len(Records(req))) : TraceServiceExport(req, fails)
    \/ Accepting /\ \E req \in Requests(ProtoLogLists) :
          \E fails \in Failures(Len(Records(req))) : LogsServiceExport(req, fails)
    \/ Accepting /\ \E req \in Requests(ProtoMetricLists) :
          \E fails \in Failures(Len(AllMetricRecords(Records(req)))) :
             MetricsServiceExport(req, fails)
    \/ Return

SpecIngest == Init /\ [][NextIngest]_vars

IngestionOps ==
    {"HandleTraces", "HandleMetrics", "HandleLogs", "TraceService.Export",
     "LogsService.Export", "MetricsService.Export"}

\* The records a batch gives rise to, in order.
BatchRecords(op, req) ==
    LET rs == Records(req)
    IN CASE op = "HandleTraces" -> [i \in 1..Len(rs) |-> HTTPTrace(rs[i])]
         [] op = "HandleMetrics" -> HTTPDataPoints(rs)
         [] op = "HandleLogs" -> [i \in 1..Len(rs) |-> HTTPLog(rs[i])]
         [] op = "TraceService.Export" -> [i \in 1..Len(rs) |-> processSpan(rs[i])]
         [] op = "LogsService.Export" -> [i \in 1..Len(rs) |-> processLogRecord(rs[i])]
         [] op = "MetricsService.Export" -> AllMetricRecords(rs)

Handed(calls) == [i \in 1..Len(calls) |-> calls[i].record]

\* C9: in both adapters a storage failure on one span, metric data point or
\* log record keeps no other record of the batch from storage: every record
\* of a decoded batch, later data points of the same metric and later rows
\* of the same histogram or summary included, is handed to storage, and the
\* response is a success.
C9_FailureSkipsOnlyItsRecord ==
    last.op \in IngestionOps /\ last.response # StatusBadRequest =>
        /\ Handed(last.calls) = BatchRecords(last.op, last.input)
        /\ last.response \in {StatusOK, ExportResponse}

\* What holds of the handlers that log the error and go on: all but the
\* gRPC metrics service.
C9_OtherHandlersGoOn ==
    /\ last.op \in IngestionOps \ {"MetricsService.Export"}
    /\ last.response # StatusBadRequest
    => /\ Handed(last.calls) = BatchRecords(last.op, last.input)
       /\ last.response \in {StatusOK, ExportResponse}

Malformed(span) == span.StartTimeUnixNano.kind \in {"garbage", "number"}

WellFormed(span) == span.StartTimeUnixNano.kind = "rfc3339"

\* C10: a batch of one malformed span (an unparseable timestamp) and one
\* valid span leaves storage with the valid span's row and no row of the
\* malformed one, and the response reports success.
C10_MalformedSpanLeavesNoRow ==
    /\ last.op = "HandleTraces"
    /\ Len(Records(last.input)) = 2
    /\ \A c \in Range(last.calls) : ~c.failed
    => LET spans == Records(last.input)
       IN \A i, j \in 1..2 :
             Malformed(spans[i].record) /\ WellFormed(spans[j].record) =>
                /\ last.response = StatusOK
                /\ Len(last.added) = 1
                /\ last.added[1].span_id = spans[j].record.SpanId

(***************************************************************************)
(* The response of an ingestion handler.                                   *)
(***************************************************************************)
\* The sub-records of a batch that storage did not take.
NotPersisted == Len(BatchRecords(last.op, last.input)) - Len(last.added)

Decoded == last.op \in IngestionOps /\ last.response # StatusBadRequest

ReportsSuccess ==
    IF last.response = StatusOK THEN last.response.code = 200
    ELSE last.response.err = NoError

\* The rejected count a response carries, as a set: empty when the response
\* has no such field.
RejectedCount ==
    IF "rejected" \in DOMAIN last.response THEN {last.response.rejected} ELSE {}

\* C11: every ingestion response for a decodable envelope reports success
\* together with a rejected count that equals the number of sub-records of
\* the batch that were not persisted; the count is 0 exactly when every
\* record of the batch was accepted.
C11_RejectedCountsUnpersisted ==
    Decoded => ReportsSuccess /\ RejectedCount = {NotPersisted}

\* What the gRPC services do: success with a rejected count of 0 whatever
\* storage did; every decoded batch is answered with a success.
C11_RejectedAlwaysZero ==
    Decoded => /\ ReportsSuccess
               /\ RejectedCount \subseteq {0}
               /\ last.op \in {"TraceService.Export", "LogsService.Export",
                               "MetricsService.Export"} => RejectedCount = {0}

\* A gRPC trace export that lost a span to a storage error.
C11_LostSpan ==
    /\ last.op = "TraceService.Export"
    /\ NotPersisted > 0
    /\ last.response = ExportResponse

(***************************************************************************)
(* The two adapters on one payload.  The payload is taken as the gRPC      *)
(* request; its JSON form carries the same attributes, ids, names and      *)
(* texts, and every timestamp as a string in the given layout.             *)
(***************************************************************************)
JSONTime(layout, nanos) == [kind |-> layout, nanos |-> nanos]

\* status.code of the JSON form is a string: the text of the code.
JSONStatus(status) ==
    CASE status = "nil" -> ""
      [] status = "STATUS_CODE_UNSET" -> "UNSET"
      [] status = "STATUS_CODE_OK" -> "OK"
      [] status = "STATUS_CODE_ERROR" -> "ERROR"
      [] OTHER -> status

JSONSpan(layout, span) ==
    [TraceId |-> span.TraceId, SpanId |-> span.SpanId,
     ParentSpanId |-> span.ParentSpanId, Name |-> span.Name,
     StartTimeUnixNano |-> JSONTime(layout, span.StartTimeUnixNano),
     EndTimeUnixNano |-> JSONTime(layout, span.EndTimeUnixNano),
     Status |-> JSONStatus(span.Status), Attributes |-> span.Attributes]

JSONLog(layout, record) ==
    [TimeUnixNano |-> JSONTime(layout, record.TimeUnixNano),
     SeverityText |-> record.SeverityText, Body |-> record.Body,
     Attributes |-> record.Attributes, TraceId |-> record.TraceId,
     SpanId |-> record.SpanId]

JSONDataPoints(layout, dataPoints) ==
    [i \in 1..Len(dataPoints) |->
        [TimeUnixNano |-> JSONTime(layout, dataPoints[i].TimeUnixNano),
         AsDouble |-> dataPoints[i].Value,
         Attributes |-> dataPoints[i].Attributes]]

JSONMetric(layout, metric) ==
    [Name |-> metric.Name,
     Gauge |-> IF metric.Type = "gauge"
               THEN JSONDataPoints(layout, metric.DataPoints) ELSE <<>>,
     Sum |-> IF metric.Type = "sum"
             THEN JSONDataPoints(layout, metric.DataPoints) ELSE <<>>]

JSONRecord(kind, layout, record) ==
    CASE kind = "traces" -> JSONSpan(layout, record)
      [] kind = "logs" -> JSONLog(layout, record)
      [] kind = "metrics" -> JSONMetric(layout, record)

JSONRequest(kind, layout, req) ==
    [i \in 1..Len(req) |->
        [Resource |-> req[i].Resource,
         Records |-> [j \in 1..Len(req[i].Records) |->
                         JSONRecord(kind, layout, req[i].Records[j])]]]

\* The kind of record a gRPC service takes and the HTTP handler of that kind.
ExportKind ==
    [x \in {"TraceService.Export", "LogsService.Export", "MetricsService.Export"} |->
        CASE x = "TraceService.Export" -> "traces"
          [] x = "LogsService.Export" -> "logs"
          [] x = "MetricsService.Export" -> "metrics"]

HandlerOf == [traces |-> "HandleTraces", logs |-> "HandleLogs",
              metrics |-> "HandleMetrics"]

\* A payload both adapters have a form for: of metrics, gauges and sums.
InBothForms(op, req) ==
    /\ op \in DOMAIN ExportKind
    /\ op = "MetricsService.Export" =>
          \A r \in Range(Records(req)) : r.record.Type \in {"gauge", "sum"}

\* The records the HTTP handler hands to storage for the JSON form of the
\* payload are those the gRPC service hands to storage.
SameRecords(layout, op, req) ==
    BatchRecords(HandlerOf[ExportKind[op]],
                 JSONRequest(ExportKind[op], layout, req))
        = BatchRecords(op, req)

\* C12: for the same logical payload (same resource attributes and the same
\* spans, metric data points or log records with the same ids, names,
\* nanosecond timestamps, status codes, severity and attributes) the gRPC
\* adapter and the JSON-over-HTTP adapter write identical canonical records:
\* same primary timestamp, duration, status_code, level, service_name and
\* attribute map.
C12_AdaptersWriteSameRecords ==
    InBothForms(last.op, last.input) => SameRecords("decimal", last.op, last.input)

\* Payloads on which the adapters differ in nothing but the timestamp: every
\* resource names its service, every span has a status and every log record
\* a severity text.
FullyNamed(op, req) ==
    \A r \in Range(Records(req)) :
        /\ ServiceNameOf("http", r.resource) # ""
        /\ op = "TraceService.Export" => r.record.Status # "nil"
        /\ op = "LogsService.Export" => r.record.SeverityText # ""

\* What holds: with RFC 3339 timestamps in the JSON form, fully named
\* payloads give the same records in both adapters.
C12_SameRecordsForRFC3339 ==
    InBothForms(last.op, last.input) /\ FullyNamed(last.op, last.input)
        => SameRecords("rfc3339", last.op, last.input)

\* A fully named payload with decimal timestamps reached the gRPC service.
C12_NamedPayload ==
    /\ last.op = "TraceService.Export"
    /\ FullyNamed(last.op, last.input)
    /\ Len(last.added) > 0
    /\ ~SameRecords("decimal", last.op, last.input)

(***************************************************************************)
(* The service name of a record.                                           *)
(***************************************************************************)
\* The values of the service.name attributes of a resource.
ServiceNameValues(attributes) ==
    {a.Value : a \in {x \in Range(attributes) : x.Key = "service.name"}}

\* The name the records of a resource are to carry: the value of service.name,
\* and unknown when the attribute is absent or empty.
NamedOrUnknown(attributes) ==
    IF ServiceNameValues(attributes) \subseteq {""} THEN {"unknown"}
    ELSE ServiceNameValues(attributes) \ {""}

\* The resource of the i-th record handed to storage, where each record of
\* the batch gives one call (spans and log records).
CallsFollowRecords ==
    last.op \in {"HandleTraces", "HandleLogs", "TraceService.Export",
                 "LogsService.Export"}

\* C13: in both adapters the service_name stored with every record of a
\* resource is the value of that resource's service.name attribute, and is
\* the literal unknown whenever that attribute is absent or its value is
\* empty; no record is ever stored with an empty service name.
C13_ServiceNameOrUnknown ==
    Decoded =>
        /\ \A row \in Range(last.added) :
              /\ row.service_name # ""
              /\ \E r \in Range(Records(last.input)) :
                    row.service_name \in NamedOrUnknown(r.resource)
        /\ CallsFollowRecords =>
              \A i \in 1..Len(last.calls) :
                 last.calls[i].record.ServiceName
                    \in NamedOrUnknown(Records(last.input)[i].resource)

\* What holds: the claim for the gRPC services, and for the HTTP handlers
\* when service.name is absent or not empty.
C13_ExceptEmptyOverHTTP ==
    /\ Decoded
    /\ last.op \in {"HandleTraces", "HandleMetrics", "HandleLogs"} =>
          \A r \in Range(Records(last.input)) :
             "" \notin ServiceNameValues(r.resource)
    => /\ \A row \in Range(last.added) :
             /\ row.service_name # ""
             /\ \E r \in Range(Records(last.input)) :
                   row.service_name \in NamedOrUnknown(r.resource)
       /\ CallsFollowRecords =>
             \A i \in 1..Len(last.calls) :
                last.calls[i].record.ServiceName
                   \in NamedOrUnknown(Records(last.input)[i].resource)

\* A row with an empty service name is in storage.
C13_EmptyServiceNameStored ==
    \E row \in Range(metrics) \cup Range(traces) \cup Range(logs) :
        row.service_name = ""

(***************************************************************************)
(* Listing (storage/sqlite.go: GetMetrics, GetTraces, GetLogs).  A time is *)
(* the instant it denotes, counted in nanoseconds since the epoch; the     *)
(* zero time.Time, year 1, lies before every instant an int64 can count.   *)
(***************************************************************************)
\* The zero time.Time as an instant (scaled); its UnixNano() is ZeroTime.
YearOne == -(5 * 2 ^ 20)

\* rows.Scan into a Metric, then m.Timestamp = time.Unix(0, timestamp).
ScanMetric(row) ==
    [ID |-> row.id, Timestamp |-> UnixNanos(row.timestamp),
     MetricName |-> row.metric_name, Value |-> row.value, Labels |-> row.labels,
     ServiceName |-> row.service_name]

ScanTrace(row) ==
    [ID |-> row.id, TraceID |-> row.trace_id, SpanID |-> row.span_id,
     ParentSpanID |-> row.parent_span_id, ServiceName |-> row.service_name,
     OperationName |-> row.operation_name,
     StartTime |-> UnixNanos(row.start_time),
     DurationNanos |-> row.duration_nanos, Attributes |-> row.attributes,
     StatusCode |-> row.status_code]

ScanLog(row) ==
    [ID |-> row.id, Timestamp |-> UnixNanos(row.timestamp),
     ServiceName |-> row.service_name, Level |-> row.level,
     Message |-> row.message, Attributes |-> row.attributes,
     TraceID |-> row.trace_id, SpanID |-> row.span_id]

Scan(kind, row) ==
    CASE kind = "metrics" -> ScanMetric(row)
      [] kind = "traces" -> ScanTrace(row)
      [] kind = "logs" -> ScanLog(row)

\* ORDER BY <primary timestamp> DESC: the orders of the rows in which no row
\* comes before a row of a later timestamp.  The order among rows of one
\* timestamp is the database's choice.
OrderByDesc(kind, rows) ==
    {[i \in DOMAIN rows |-> rows[p[i]]] :
        p \in {q \in [DOMAIN rows -> DOMAIN rows] :
                 /\ \A i, j \in DOMAIN rows : i # j => q[i] # q[j]
                 /\ \A i, j \in DOMAIN rows :
                       i < j => PrimaryTimestamp(kind, rows[q[i]])
                                   >= PrimaryTimestamp(kind, rows[q[j]])}}

\* LIMIT ? OFFSET ?: a negative limit is no limit, a negative offset is none.
LimitOffset(rows, limit, offset) ==
    LET skipped == IF offset < 0 THEN 0 ELSE offset
        upTo == IF limit < 0 \/ skipped + limit > Len(rows)
                THEN Len(rows) ELSE skipped + limit
    IN SubSeq(rows, skipped + 1, upTo)

\* The list methods: the query, and the scan of every row it returns.
GetRows(op, kind, limit, offset, queryFails) ==
    /\ \E ordered \in OrderByDesc(kind, Table(kind)) :
          LET rows == LimitOffset(ordered, limit, offset)
          IN last' = [op |-> op, limit |-> limit, offset |-> offset,
                      err |-> IF queryFails THEN "query failed" ELSE NoError,
                      result |-> IF queryFails THEN <<>>
                                 ELSE [i \in DOMAIN rows |-> Scan(kind, rows[i])]]
    /\ UNCHANGED <<metrics, traces, logs, seq, now>>

GetMetrics(limit, offset, queryFails) ==
    GetRows("GetMetrics", "metrics", limit, offset, queryFails)

GetTraces(limit, offset, queryFails) ==
    GetRows("GetTraces", "traces", limit, offset, queryFails)

GetLogs(limit, offset, queryFails) ==
    GetRows("GetLogs", "logs", limit, offset, queryFails)

(***************************************************************************)
(* The listing specification: records are inserted and the kinds listed.   *)
(***************************************************************************)
\* A whole second, an instant within a second, and the zero time.
ListTimes == {SecondsOf(1), SecondsOf(1) + 1, YearOne}

ListMetric(t) ==
    [Timestamp |-> t, MetricName |-> "m", Value |-> 3,
     Labels |-> IF t = SecondsOf(1) THEN EmptyLabels ELSE [env |-> "prod"],
     ServiceName |-> "api"]

ListTrace(t) ==
    [TraceID |-> "t1", SpanID |-> "s1",
     ParentSpanID |-> IF t = SecondsOf(1) THEN "" ELSE "s0",
     ServiceName |-> "api", OperationName |-> "op", StartTime |-> t,
     DurationNanos |-> Second, Attributes |-> [peer |-> "db"],
     StatusCode |-> "OK"]

ListLog(t) ==
    [Timestamp |-> t, ServiceName |-> "api", Level |-> "WARN",
     Message |-> "msg", Attributes |-> EmptyLabels,
     TraceID |-> IF t = SecondsOf(1) THEN "" ELSE "t1",
     SpanID |-> IF t = SecondsOf(1) THEN "" ELSE "s1"]

Limits == -1..MaxLimit

ListFull == RowsInserted >= MaxListed

NextList ==
    \/ ~ListFull /\ \E t \in ListTimes, f \in BOOLEAN : InsertMetric(ListMetric(t), f)
    \/ ~ListFull /\ \E t \in ListTimes, f \in BOOLEAN : InsertTrace(ListTrace(t), f)
    \/ ~ListFull /\ \E t \in ListTimes, f \in BOOLEAN : InsertLog(ListLog(t), f)
    \/ \E limit, offset \in Limits, f \in BOOLEAN : GetMetrics(limit, offset, f)
    \/ \E limit, offset \in Limits, f \in BOOLEAN : GetTraces(limit, offset, f)
    \/ \E limit, offset \in Limits, f \in BOOLEAN : GetLogs(limit, offset, f)

SpecList == Init /\ [][NextList]_vars

InsertKind == [InsertMetric |-> "metrics", InsertTrace |-> "traces",
               InsertLog |-> "logs"]

ListKind == [GetMetrics |-> "metrics", GetTraces |-> "traces", GetLogs |-> "logs"]

Inserted == last.op \in DOMAIN InsertKind /\ last.err = NoError

\* The time of a valid record is one UnixNano() can count.
ValidRecord(kind, record) ==
    LET t == IF kind = "traces" THEN record.StartTime ELSE record.Timestamp
    IN MinInt64 <= t /\ t <= MaxInt64

\* The fields of a listed record but the storage-assigned id.
Fields(listed) == [f \in DOMAIN listed \ {"ID"} |-> listed[f]]

\* A listing of every row of its kind.
ListsAll(limit, offset, rows) ==
    offset <= 0 /\ (limit < 0 \/ limit >= Len(rows))

\* C14: for every valid metric, span or log record, inserting it and then
\* listing its kind returns a record whose fields (timestamp to the
\* nanosecond, names, value, labels or attributes, optional parent span id,
\* trace id and span id, duration, status, level, message, service name)
\* equal the inserted ones, apart from the storage-assigned id.
C14_ListedAsInserted ==
    [][Inserted /\ ValidRecord(InsertKind[last.op], last.record)
       /\ last'.op \in DOMAIN ListKind /\ last'.err = NoError
       /\ ListKind[last'.op] = InsertKind[last.op]
       => LET kind == InsertKind[last.op]
              mine == {r \in Range(last'.result) : r.ID = seq[kind]}
          IN /\ \A r \in mine : Fields(r) = last.record
             /\ ListsAll(last'.limit, last'.offset, Table(kind)) => mine # {}
      ]_vars

\* A listing has returned a record with a time within a second, labels and
\* optional ids.
C14_Witness ==
    /\ last.op \in DOMAIN ListKind
    /\ \E r \in Range(last.result) :
          /\ ValidRecord(ListKind[last.op], Fields(r))
          /\ IF last.op = "GetTraces"
             THEN r.StartTime = SecondsOf(1) + 1 /\ r.ParentSpanID = "s0"
             ELSE r.Timestamp = SecondsOf(1) + 1

(***************************************************************************)
(* Order, limit and offset of a listing.                                   *)
(***************************************************************************)
Listed == last.op \in DOMAIN ListKind /\ last.err = NoError

RecordTime(kind, record) ==
    IF kind = "traces" THEN record.StartTime ELSE record.Timestamp

\* The records of a kind in storage, as a listing gives them.
RecordsOf(kind) == {Scan(kind, row) : row \in Range(Table(kind))}

\* result is what stands at the places skip + 1 .. skip + Len(result) of a
\* descending order of the records of the kind.
PlacedDescending(kind, result, skip) ==
    /\ \A i \in DOMAIN result : result[i] \in RecordsOf(kind)
    /\ \A i, j \in DOMAIN result : i # j => result[i].ID # result[j].ID
    /\ \A i \in DOMAIN result :
          LET t == RecordTime(kind, result[i])
              later == {r \in RecordsOf(kind) : RecordTime(kind, r) > t}
              notEarlier == {r \in RecordsOf(kind) : RecordTime(kind, r) >= t}
          IN /\ Cardinality(later) <= skip + i - 1
             /\ Cardinality(notEarlier) >= skip + i

\* The number of records a listing with a limit and an offset that are not
\* negative returns: what is left after the offset, and at most limit.
Returned(kind, limit, offset) ==
    LET left == IF Len(Table(kind)) > offset THEN Len(Table(kind)) - offset ELSE 0
    IN IF limit < left THEN limit ELSE left

Clamped(n) == IF n < 0 THEN 0 ELSE n

\* C15: list(kind, limit, offset) returns records of that kind in descending
\* order of primary timestamp, skipping the first offset records and
\* returning at most limit records; a negative limit or a negative offset is
\* clamped to 0, and an empty result is returned without an error.
C15_ListClampsLimitAndOffset ==
    Listed =>
        LET kind == ListKind[last.op]
        IN /\ PlacedDescending(kind, last.result, Clamped(last.offset))
           /\ Len(last.result)
                = Returned(kind, Clamped(last.limit), Clamped(last.offset))

\* What GetMetrics, GetTraces and GetLogs do: a negative offset skips
\* nothing, a negative limit returns every record after the offset.
C15_NegativeLimitListsAll ==
    Listed =>
        LET kind == ListKind[last.op]
            limit == IF last.limit < 0 THEN Len(Table(kind)) ELSE last.limit
        IN /\ PlacedDescending(kind, last.result, Clamped(last.offset))
           /\ Len(last.result) = Returned(kind, limit, Clamped(last.offset))

\* A listing with a negative limit has returned records.
C15_NegativeLimitReturnsRecords ==
    Listed /\ last.limit < 0 /\ last.result # <<>>

(***************************************************************************)
(* The running service (cmd main): it starts the ingestion service, the    *)
(* dogfood collection loop and the HTTP server, and then waits for the     *)
(* signal to stop.  Records arrive and are listed while time passes;       *)
(* nothing main starts calls CleanupOldData.                               *)
(***************************************************************************)
\* runCollectionLoop: the ticker of the dogfood service fires; when enabled,
\* telemetry is collected and posted to the service's own HTTP endpoints,
\* where it arrives as any other request does.
runCollectionLoop(enabled) ==
    /\ last' = [op |-> "runCollectionLoop", enabled |-> enabled, err |-> NoError]
    /\ UNCHANGED <<metrics, traces, logs, seq, now>>

TickerFires == Idle /\ \E enabled \in BOOLEAN : runCollectionLoop(enabled)

NextService ==
    \/ Idle /\ ~ListFull /\ \E t \in RetentionTimes, f \in BOOLEAN :
          InsertMetric(RetentionMetric(t), f)
    \/ Idle /\ ~ListFull /\ \E t \in RetentionTimes, f \in BOOLEAN :
          InsertTrace(RetentionTrace(t), f)
    \/ Idle /\ ~ListFull /\ \E t \in RetentionTimes, f \in BOOLEAN :
          InsertLog(RetentionLog(t), f)
    \/ Idle /\ \E limit \in Limits, f \in BOOLEAN : GetMetrics(limit, 0, f)
    \/ Idle /\ \E limit \in Limits, f \in BOOLEAN : GetTraces(limit, 0, f)
    \/ Idle /\ \E limit \in Limits, f \in BOOLEAN : GetLogs(limit, 0, f)
    \/ TickerFires
    \/ Return
    \/ Tick

\* The service runs on: time passes, the ticker of the collection loop keeps
\* firing and every call returns.
SpecService ==
    /\ Init
    /\ [][NextService]_vars
    /\ WF_vars(Tick)
    /\ WF_vars(TickerFires)
    /\ WF_vars(Return)

\* A stored record whose primary timestamp is strictly older than the
\* retention limit.
OldRecordStored ==
    \E i \in DOMAIN Kinds :
        \E row \in Range(Table(Kinds[i])) :
            PrimaryTimestamp(Kinds[i], row) < Cutoff(now)

\* C16: while the service is running the retention purge is invoked again and
\* again, a failed sweep being retried on the next tick, so that every stored
\* record whose primary timestamp has become strictly older than the
\* retention limit is eventually deleted.
C16_OldRecordsEventuallyDeleted == OldRecordStored ~> ~OldRecordStored

\* What holds of the running service: a record once older than the retention
\* limit stays in storage.
C16_OldRecordsStay == [][OldRecordStored => OldRecordStored']_vars

(***************************************************************************)
(* The metrics query handler (query/service.go) and the context of a       *)
(* fetch.  A context says whether it is cancelled during the fetch and,    *)
(* if so, how many rows the fetch has read by then.                        *)
(***************************************************************************)
\* context.Background(): never cancelled.
Background == [cancelled |-> FALSE, rowsRead |-> 0]

ErrContextCanceled == "context canceled"

\* e.db.QueryContext(ctx, ...) and the loop over rows.Next(): a context done
\* before the first row fails the query; a context done later ends the loop,
\* rows.Next() returning false, and the rows read so far are grouped and
\* returned with a nil error (rows.Err() is not looked at).
QueryContext(ctx, rows, query, startTime, endTime) ==
    LET selected ==
            OrderByTimestamp(Filter(rows, {r \in Range(rows) :
                                RowSelected(r, query, startTime, endTime)}))
        read == IF ctx.cancelled /\ ctx.rowsRead < Len(selected)
                THEN SubSeq(selected, 1, ctx.rowsRead) ELSE selected
    IN IF ctx.cancelled /\ ctx.rowsRead = 0
       THEN [err |-> ErrContextCanceled, series |-> {}]
       ELSE [err |-> NoError,
             series |-> getMetricSeries(read, query, startTime, endTime)]

\* Evaluate(ctx, query, startTime, endTime) with the context it is given.
EvaluateContext(ctx, query, startTime, endTime) ==
    LET fetch == QueryContext(ctx, metrics, query, startTime, endTime)
    IN /\ \E fetched \in Orders(fetch.series) :
             LET e == Evaluation(query, fetched, fetch.err # NoError)
             IN last' = [op |-> "EvaluateContext", ctx |-> ctx, query |-> query,
                         startTime |-> startTime, endTime |-> endTime,
                         fetched |-> fetched, err |-> e.err, result |-> e.result]
       /\ UNCHANGED <<metrics, traces, logs, seq, now>>

\* The Go strings of the handler's queries and their characters.
Spelling ==
    [m |-> <<"m">>, x |-> <<"x">>, rate |-> <<"r", "a", "t", "e">>,
     bogus |-> <<"b", "o", "g", "u", "s">>, env |-> <<"e", "n", "v">>,
     prod |-> <<"p", "r", "o", "d">>]

GoString(chars) ==
    IF chars = <<>> THEN "" ELSE CHOOSE n \in DOMAIN Spelling : Spelling[n] = chars

\* The query Parse returns, as the evaluator reads it.
GoQuery(q) ==
    [MetricName |-> GoString(q.MetricName),
     Labels |-> [k \in {GoString(c) : c \in DOMAIN q.Labels} |->
                    GoString(q.Labels[Spelling[k]])],
     Function |-> GoString(q.Function), Range |-> q.Range,
     Aggregation |-> q.Aggregation]

\* req.StartTime.IsZero()
IsZero(t) == t = YearOne

QueryResponse(code, status, data) == [code |-> code, status |-> status, data |-> data]

\* convertToPrometheusFormat: of every series the metric with its name and
\* labels and the values, each a pair of Unix seconds and value.
convertToPrometheusFormat(result) ==
    [resultType |-> result.Type,
     result |-> [i \in DOMAIN result.Series |->
                   [metric |-> [name |-> result.Series[i].MetricName,
                                labels |-> result.Series[i].Labels],
                    values |-> [j \in DOMAIN result.Series[i].Points |->
                                  <<Unix(result.Series[i].Points[j].Timestamp),
                                    result.Series[i].Points[j].Value>>]]]]

NoData == <<>>

\* HandleMetricsQuery: the request is bound, the time range defaulted, the
\* query parsed and evaluated with context.Background(); requestContext is
\* the context of the request, c.Request.Context().
HandleMetricsQuery(req, requestContext, queryFails) ==
    LET startTime == IF IsZero(req.StartTime) THEN now - Hour ELSE req.StartTime
        endTime == IF IsZero(req.EndTime) THEN now ELSE req.EndTime
        parsed == Parse(req.Query)
        Respond(fetched, response) ==
            last' = [op |-> "HandleMetricsQuery", input |-> req,
                     ctx |-> requestContext, startTime |-> startTime,
                     endTime |-> endTime, fetched |-> fetched,
                     response |-> response]
    IN /\ IF req.Query = <<>> \/ parsed.err # NoError
          THEN Respond(<<>>, QueryResponse(400, "error", NoData))
          ELSE LET query == GoQuery(parsed.query[1])
                   fetch == QueryContext(Background, metrics, query,
                                         startTime, endTime)
               IN \E fetched \in Orders(fetch.series) :
                     LET e == Evaluation(query, fetched, queryFails)
                     IN Respond(fetched,
                           IF e.err # NoError
                           THEN QueryResponse(500, "error", NoData)
                           ELSE QueryResponse(200, "success",
                                    <<convertToPrometheusFormat(e.result[1])>>))
       /\ UNCHANGED <<metrics, traces, logs, seq, now>>

(***************************************************************************)
(* The handler specification: metrics are inserted and queried while the   *)
(* caller may give up.                                                     *)
(***************************************************************************)
QueryTexts ==
    {<<>>, <<" ">>, <<"m">>, <<"x">>,
     <<"m", "{", "e", "n", "v", "=", "\"", "p", "r", "o", "d", "\"", "}">>,
     <<"r", "a", "t", "e", "(", "m", "[", "1", "s", "]", ")">>,
     <<"b", "o", "g", "u", "s", "(", "m", ")">>}

MetricsQueryRequests ==
    {[Query |-> text, StartTime |-> t[1], EndTime |-> t[2]] :
        text \in QueryTexts,
        t \in {<<YearOne, YearOne>>, <<0, YearOne>>, <<0, SecondsOf(1)>>}}

\* The contexts of a caller: never cancelled, or cancelled when the fetch
\* has read some number of rows.
Contexts ==
    {Background} \cup {[cancelled |-> TRUE, rowsRead |-> n] : n \in 0..MaxQueryRows}

\* The queries evaluated under a caller's context: plain and summed.
ContextQueries ==
    {q \in Queries : q.Function \in {"", "sum"} /\ q.Aggregation = NoAggregation}

NextHandle ==
    \/ Idle /\ \E m \in QueryMetrics : InsertQueryMetric(m)
    \/ Idle /\ \E req \in MetricsQueryRequests, ctx \in Contexts, f \in BOOLEAN :
                  HandleMetricsQuery(req, ctx, f)
    \/ Idle /\ \E q \in ContextQueries, t \in QueryTimes, ctx \in Contexts :
                  EvaluateContext(ctx, q, t[1], t[2])
    \/ Return

SpecHandle == Init /\ [][NextHandle]_vars

\* The rows a query selects, and the points a fetch returned.
SelectedRows(query, startTime, endTime) ==
    {r \in Range(metrics) : RowSelected(r, query, startTime, endTime)}

PointsOf(fetched) ==
    {<<i, j>> \in (DOMAIN fetched) \X (1..(MaxQueryRows + 1)) :
        j \in DOMAIN fetched[i].Points}

\* The caller's cancellation fired while the query was being evaluated, from
\* the first row on.
CancelledInEvaluation ==
    \/ /\ last.op = "HandleMetricsQuery"
       /\ last.ctx.cancelled
       /\ last.response.code # 400
    \/ last.op = "EvaluateContext" /\ last.ctx.cancelled

Succeeded ==
    IF last.op = "HandleMetricsQuery" THEN last.response.code = 200
    ELSE last.err = NoError

\* The query of the call in last, as the evaluator reads it.
LastQuery ==
    IF last.op = "HandleMetricsQuery" THEN GoQuery(Parse(last.input.Query).query[1])
    ELSE last.query

\* A success built from only part of the matching rows.
PartialSuccess ==
    /\ Succeeded
    /\ Cardinality(PointsOf(last.fetched))
          < Cardinality(SelectedRows(LastQuery, last.startTime, last.endTime))

\* C17: when the caller's cancellation signal (request context or deadline)
\* fires while a metrics query is being evaluated, the storage fetch is
\* aborted and the evaluation ends with an error; a success response built
\* from only part of the matching rows is never returned.
C17_CancellationYieldsError ==
    CancelledInEvaluation => ~Succeeded /\ ~PartialSuccess

\* What holds of the handler: it answers from all matching rows whether or
\* not the caller has given up, and an evaluation whose context is done
\* before the first row ends with an error.
C17_HandlerIgnoresCancellation ==
    /\ last.op = "HandleMetricsQuery" /\ last.response.code # 400 =>
          /\ ~PartialSuccess
          /\ Cardinality(PointsOf(last.fetched))
                = Cardinality(SelectedRows(LastQuery, last.startTime, last.endTime))
    /\ last.op = "EvaluateContext" /\ last.ctx.cancelled /\ last.ctx.rowsRead = 0
          => last.err # NoError

\* A cancelled request answered with a success over rows.
C17_CancelledSuccess ==
    /\ last.op = "HandleMetricsQuery"
    /\ last.ctx.cancelled
    /\ last.response.code = 200
    /\ last.fetched # <<>>

\* An evaluation whose context was cancelled mid-fetch and that succeeded
\* with part of the rows.
C17_PartialResult ==
    last.op = "EvaluateContext" /\ last.ctx.cancelled /\ PartialSuccess

(***************************************************************************)
(* Two batches at once.  Each connection is served by its own goroutine:   *)
(* the handler builds the record of its next span in variables of its own  *)
(* and hands it to InsertTrace, one db.Exec.  last keeps, for each of the  *)
(* two handlers, its request and the number of spans it has gone through.  *)
(***************************************************************************)
TraceHandlers == {"HandleTraces", "TraceService.Export"}

\* The spans of the batches: RFC 3339 times over HTTP, counts over gRPC.
ConcurrentRequests(op) ==
    IF op = "HandleTraces"
    THEN Requests({l \in WireSpanLists :
                     \A i \in DOMAIN l : l[i].StartTimeUnixNano.kind = "rfc3339"})
    ELSE Requests({l \in ProtoSpanLists :
                     \A i \in DOMAIN l : l[i].StartTimeUnixNano = SecondsOf(1)})

\* Two requests arrive on two connections of a service that has just started.
Serve(ops, reqs) ==
    /\ Idle
    /\ RowsInserted = 0
    /\ last' = [op |-> "concurrent", ops |-> ops, input |-> reqs,
                pc |-> <<0, 0>>, failed |-> {}, before |-> Len(traces)]
    /\ UNCHANGED <<metrics, traces, logs, seq, now>>

Serving == last.op = "concurrent"

SpansOf(p) == BatchRecords(last.ops[p], last.input[p])

\* The record a handler hands to storage is the one it built in its own
\* variables; were the variable shared, it could be the other handler's.
SharedSpanOf(p) ==
    LET other == 3 - p
    IN IF last.pc[other] < Len(SpansOf(other))
       THEN SpansOf(other)[last.pc[other] + 1]
       ELSE SpansOf(p)[last.pc[p] + 1]

OwnSpanOf(p) == SpansOf(p)[last.pc[p] + 1]

\* The next iteration of handler p: the span's record is built and inserted;
\* an error is logged and the loop goes on.
InsertNext(p, fails) ==
    /\ Serving
    /\ last.pc[p] < Len(SpansOf(p))
    /\ StoreAll("traces", <<Call(OwnSpanOf(p), fails)>>)
    /\ last' = [last EXCEPT !.pc[p] = @ + 1,
                            !.failed = IF fails THEN @ \cup {<<p, last.pc[p] + 1>>}
                                       ELSE @]

BothDone == Serving /\ \A p \in DOMAIN last.pc : last.pc[p] = Len(SpansOf(p))

\* Both handlers have answered.
Answered ==
    /\ BothDone
    /\ last' = [op |-> "none", err |-> NoError]
    /\ UNCHANGED <<metrics, traces, logs, seq, now>>

\* The handlers of the two connections.
HandlerPairs ==
    {<<"HandleTraces", "HandleTraces">>, <<"HandleTraces", "TraceService.Export">>,
     <<"TraceService.Export", "TraceService.Export">>}

NextConcurrent ==
    \/ \E ops \in HandlerPairs :
          \E r1 \in ConcurrentRequests(ops[1]), r2 \in ConcurrentRequests(ops[2]) :
             Serve(ops, <<r1, r2>>)
    \/ \E fails \in BOOLEAN : InsertNext(1, fails)
    \/ \E fails \in BOOLEAN : InsertNext(2, fails)
    \/ Answered

SpecConcurrent == Init /\ [][NextConcurrent]_vars

\* How often x occurs in the sequence s.
Copies(x, s) == Cardinality({i \in DOMAIN s : s[i] = x})

SameMultiset(s, t) ==
    \A x \in Range(s) \cup Range(t) : Copies(x, s) = Copies(x, t)

\* A row without its storage-assigned id.
WithoutId(row) == [f \in DOMAIN row \ {"id"} |-> row[f]]

\* The rows the two handlers have added.
AddedByBoth ==
    LET rows == SubSeq(traces, last.before + 1, Len(traces))
    IN [i \in DOMAIN rows |-> WithoutId(rows[i])]

\* The rows of the spans of handler p whose insert did not fail.
RowsDue(p) ==
    LET kept == Filter([i \in DOMAIN SpansOf(p) |-> <<p, i>>],
                       {<<p, i>> : i \in DOMAIN SpansOf(p)} \ last.failed)
    IN [i \in DOMAIN kept |-> WithoutId(TraceRow(0, SpansOf(p)[kept[i][2]]))]

Fetched == last.op = "Evaluate" /\ ~last.queryFails

\* The rows the fetch of the call in last read.
FetchedRows ==
    {r \in Range(metrics) :
        RowSelected(r, last.query, last.startTime, last.endTime)}

\* The series are those of the grouping of the rows read under the label
\* map Grouping gives for a row: one series for each map, with that map as
\* its labels and one point for each row of the map.
GroupedBy(Grouping(_)) ==
    /\ {last.fetched[i].Labels : i \in DOMAIN last.fetched}
          = {Grouping(r) : r \in FetchedRows}
    /\ \A i, j \in DOMAIN last.fetched :
          i # j => last.fetched[i].Labels # last.fetched[j].Labels
    /\ \A i \in DOMAIN last.fetched :
          Len(last.fetched[i].Points)
             = Cardinality({r \in FetchedRows :
                              Grouping(r) = last.fetched[i].Labels})

StoredLabels(row) == row.labels

\* C19: in the result of a fetch two matching rows contribute points to the
\* same series if and only if their stored label sets are identical, and the
\* label map of each series is the stored label set shared by its rows; rows
\* of the same metric that differ in any label key or value are never merged
\* into one series.
C19_SeriesByStoredLabels == Fetched => GroupedBy(StoredLabels)

\* What getMetricSeries does: one series for each service name, labelled
\* service = <service_name>, whatever the labels column holds.
C19_SeriesByServiceName == Fetched => GroupedBy(RowLabels)

\* Two rows that differ in their stored labels have been merged in one series.
C19_RowsMerged ==
    /\ Fetched
    /\ \E r1, r2 \in FetchedRows : r1.labels # r2.labels
    /\ Len(last.fetched) = 1
    /\ Len(last.fetched[1].Points) = 2

(***************************************************************************)
(* The series handed to rate.                                              *)
(***************************************************************************)
StrictlyIncreasing(points) ==
    \A i, j \in DOMAIN points :
        i < j => points[i].Timestamp < points[j].Timestamp

NeverDecreasing(points) ==
    \A i, j \in DOMAIN points :
        i < j => points[i].Timestamp <= points[j].Timestamp

\* The fetch of a rate query has returned its series.
FetchedForRate == Fetched /\ last.query.Function = "rate"

\* A quotient by zero elapsed seconds: +Inf, -Inf or NaN.
ByZero(value) == value.d = 0

\* The result of the call in last holds a quotient by zero.
DividedByZero ==
    /\ last.result # NoResult
    /\ \E i \in DOMAIN last.result[1].Series :
          \E j \in DOMAIN last.result[1].Series[i].Points :
             ByZero(last.result[1].Series[i].Points[j].Value)

\* C20: in every series that fetch hands to rate, point timestamps are
\* strictly increasing with no two points sharing a timestamp, so the elapsed
\* time rate divides by is always greater than zero, for every content of
\* the metrics table reachable by inserts (including two rows of one series
\* inserted with the same timestamp).
C20_RateNeverDividesByZero ==
    FetchedForRate =>
        /\ \A s \in Range(last.fetched) : StrictlyIncreasing(s.Points)
        /\ ~DividedByZero

\* What holds: the timestamps of a series never decrease (ORDER BY timestamp
\* ASC), and rate over strictly increasing timestamps divides by no zero.
C20_RateOverOrderedPoints ==
    FetchedForRate =>
        /\ \A s \in Range(last.fetched) : NeverDecreasing(s.Points)
        /\ (\A s \in Range(last.fetched) : StrictlyIncreasing(s.Points))
              => ~DividedByZero

\* rate has divided by zero seconds.
C20_DividedByZero ==
    FetchedForRate /\ last.err = NoError /\ DividedByZero

(***************************************************************************)
(* increase.                                                               *)
(***************************************************************************)
\* The points up to point j that lie at or before t_j - range.
AtOrBeforeStart(points, j, rangeDuration) ==
    {k \in 1..j : points[k].Timestamp <= points[j].Timestamp - rangeDuration}

\* The points of S that no point of S follows in time.
Latest(points, S) ==
    {s \in S : \A o \in S : points[o].Timestamp <= points[s].Timestamp}

\* out holds, in the order of the input, one point for each input point j
\* that has a point at or before its window start: at t_j, of value
\* v_j - v_s for a latest such point s.
IncreaseOver(out, points, rangeDuration) ==
    LET J == {j \in 1..Len(points) : AtOrBeforeStart(points, j, rangeDuration) # {}}
        Rank(j) == Cardinality({i \in J : i <= j})
    IN /\ Len(out) = Cardinality(J)
       /\ \A j \in J :
             /\ out[Rank(j)].Timestamp = points[j].Timestamp
             /\ \E s \in Latest(points, AtOrBeforeStart(points, j, rangeDuration)) :
                   out[Rank(j)].Value = FSub(points[j].Value, points[s].Value)

OneSeriesOfOnePoint(out) == Len(out) = 1 /\ Len(out[1].Points) = 1

\* The value of the single point of out.
Scalar(out) == out[1].Points[1].Value

\* v is the value of a point of the series that no other point undercuts.
SmallestOf(series, v) ==
    /\ \E p \in AllPoints(series) : p.Value = v
    /\ \A p \in AllPoints(series) : ~FLess(p.Value, v)

\* v is the value of a point of the series that no other point exceeds.
LargestOf(series, v) ==
    /\ \E p \in AllPoints(series) : p.Value = v
    /\ \A p \in AllPoints(series) : ~FLess(v, p.Value)

\* What count, min and max return when they return one series of one point.
ScalarOf(op, series, out) ==
    /\ op = "applyCount" => Scalar(out) = Float(Len(series))
    /\ op = "applyMin" /\ AllPoints(series) # {} => SmallestOf(series, Scalar(out))
    /\ op = "applyMax" /\ AllPoints(series) # {} => LargestOf(series, Scalar(out))

ScalarOps == {"applyCount", "applyMin", "applyMax"}

\* C22: for every list of input series, the empty list and series without
\* points included, count, min and max return exactly one series of exactly
\* one point: the number of input series for count, the smallest (largest)
\* value over all points of all series for min (max) when there is a point.
C22_OneSeriesOfOnePoint ==
    last.op \in ScalarOps =>
        /\ OneSeriesOfOnePoint(last.out)
        /\ ScalarOf(last.op, last.series, last.out)

\* What the code does: count always returns its one point; min and max hand
\* an empty list of series back as it is, without any series, and return one
\* point (of +Inf or -Inf when no series has a point) for a list that is not
\* empty.
C22_EmptyListPassesThrough ==
    last.op \in ScalarOps =>
        IF last.op # "applyCount" /\ last.series = <<>>
        THEN last.out = <<>>
        ELSE /\ OneSeriesOfOnePoint(last.out)
             /\ ScalarOf(last.op, last.series, last.out)
             /\ last.out[1].Points[1].Timestamp = now

\* min of no series at all: the result holds no series.
C22_MinOfNothing ==
    /\ last.op = "applyMin"
    /\ last.series = <<>>
    /\ last.out = <<>>

(***************************************************************************)
(* Evaluate, stage by stage: the fetch, the function, the aggregation and  *)
(* the assembly of the QueryResult are steps of their own; pc is the stage *)
(* the evaluation is about to run and ran the stages it has run.           *)
(***************************************************************************)
\* Evaluate going on after getMetricSeries whatever its error.
AfterFetchIgnoringError(query, err) ==
    IF query.Function # "" THEN "ApplyFunction"
    ELSE IF query.Aggregation # NoAggregation THEN "ApplyAggregation"
    ELSE "Assemble"

\* Where Evaluate goes after getMetricSeries.
AfterFetch(query, err) ==
    IF err # NoError THEN "Returned"
    ELSE IF query.Function # "" THEN "ApplyFunction"
    ELSE IF query.Aggregation # NoAggregation THEN "ApplyAggregation"
    ELSE "Assemble"

\* Where Evaluate goes after applyFunction.
AfterFunction(query, err) ==
    IF err # NoError THEN "Returned"
    ELSE IF query.Aggregation # NoAggregation THEN "ApplyAggregation"
    ELSE "Assemble"

\* Where Evaluate goes after applyAggregation.
AfterAggregation(query, err) ==
    IF err # NoError THEN "Returned" ELSE "Assemble"

Evaluating == last.op = "Evaluating"

\* Evaluate is called.
EnterEvaluate(query, startTime, endTime) ==
    /\ Idle
    /\ last' = [op |-> "Evaluating", pc |-> "Fetch", query |-> query,
                startTime |-> startTime, endTime |-> endTime,
                fetched |-> <<>>, series |-> <<>>, err |-> NoError,
                result |-> NoResult, ran |-> <<>>]
    /\ UNCHANGED <<metrics, traces, logs, seq, now>>

\* series, err := e.getMetricSeries(ctx, query, startTime, endTime)
Fetch(queryFails) ==
    /\ Evaluating /\ last.pc = "Fetch"
    /\ \E fetched \in IF queryFails THEN {<<>>}
                      ELSE Orders(getMetricSeries(metrics, last.query,
                                                  last.startTime, last.endTime)) :
          LET err == IF queryFails THEN ErrQueryFailed ELSE NoError
          IN last' = [last EXCEPT !.fetched = fetched, !.series = fetched,
                                  !.err = err, !.ran = Append(@, "Fetch"),
                                  !.pc = AfterFetch(last.query, err)]
    /\ UNCHANGED <<metrics, traces, logs, seq, now>>

\* series, err = e.applyFunction(series, query.Function, query.Range)
ApplyFunction ==
    /\ Evaluating /\ last.pc = "ApplyFunction"
    /\ LET f == applyFunction(last.series, last.query.Function, last.query.Range, now)
       IN last' = [last EXCEPT !.series = f.series, !.err = f.err,
                               !.ran = Append(@, "ApplyFunction"),
                               !.pc = AfterFunction(last.query, f.err)]
    /\ UNCHANGED <<metrics, traces, logs, seq, now>>

\* series, err = e.applyAggregation(series, query.Aggregation)
ApplyAggregation ==
    /\ Evaluating /\ last.pc = "ApplyAggregation"
    /\ LET a == applyAggregation(last.series, last.query.Aggregation[1], now)
       IN last' = [last EXCEPT !.series = a.series, !.err = a.err,
                               !.ran = Append(@, "ApplyAggregation"),
                               !.pc = AfterAggregation(last.query, a.err)]
    /\ UNCHANGED <<metrics, traces, logs, seq, now>>

\* return &QueryResult{Series: series, Type: "vector"}, nil
Assemble ==
    /\ Evaluating /\ last.pc = "Assemble"
    /\ last' = [last EXCEPT !.result = QueryResult(last.series),
                            !.ran = Append(@, "Assemble"), !.pc = "Returned"]
    /\ UNCHANGED <<metrics, traces, logs, seq, now>>

\* The caller takes what Evaluate returned.
EvaluateReturns ==
    /\ Evaluating /\ last.pc = "Returned"
    /\ last' = [op |-> "none", err |-> NoError]
    /\ UNCHANGED <<metrics, traces, logs, seq, now>>

StageQueries ==
    {q \in Queries : q.Labels = EmptyLabels /\ q.Range = NanosPerSecond}

NextStages ==
    \/ Idle /\ \E m \in QueryMetrics : InsertQueryMetric(m)
    \/ \E q \in StageQueries, t \in QueryTimes : EnterEvaluate(q, t[1], t[2])
    \/ \E f \in BOOLEAN : Fetch(f)
    \/ ApplyFunction
    \/ ApplyAggregation
    \/ Assemble
    \/ EvaluateReturns
    \/ ~Evaluating /\ Return

SpecStages == Init /\ [][NextStages]_vars

\* The stages of an evaluation of the query that meets no error.
StagesOf(query) ==
    <<"Fetch">>
    \o (IF query.Function # "" THEN <<"ApplyFunction">> ELSE <<>>)
    \o (IF query.Aggregation # NoAggregation THEN <<"ApplyAggregation">> ELSE <<>>)
    \o <<"Assemble">>

IsPrefix(s, t) == Len(s) <= Len(t) /\ \A i \in DOMAIN s : s[i] = t[i]

\* C23: every evaluation runs Fetch, ApplyFunction, ApplyAggregation and
\* Assemble in this order, ApplyFunction exactly when the query names a
\* function and ApplyAggregation exactly when it carries an aggregation; an
\* error in a stage ends the evaluation at once with that error: no later
\* stage runs and no QueryResult is returned.
C23_StagesInOrder ==
    Evaluating =>
        /\ IsPrefix(last.ran, StagesOf(last.query))
        /\ last.err # NoError =>
              /\ last.pc = "Returned"
              /\ last.result = NoResult
              /\ last.ran # <<>> /\ last.ran[Len(last.ran)] # "Assemble"
        /\ last.err = NoError =>
              /\ last.pc # "Returned" =>
                    /\ last.result = NoResult
                    /\ last.pc = StagesOf(last.query)[Len(last.ran) + 1]
              /\ last.pc = "Returned" =>
                    /\ last.ran = StagesOf(last.query)
                    /\ last.result = QueryResult(last.series)

\* sum(m[1s]) with an unsupported aggregation over stored rows: the fetch and
\* the function have run, the aggregation has failed and nothing was assembled.
C23_Witness ==
    /\ Evaluating
    /\ last.pc = "Returned"
    /\ last.fetched # <<>>
    /\ last.ran = <<"Fetch", "ApplyFunction", "ApplyAggregation">>
    /\ last.err = ErrUnsupportedAggregation
    /\ last.result = NoResult

(***************************************************************************)
(* The functions of the built-in catalog in an evaluation.                 *)
(***************************************************************************)
\* The function names the switch of applyFunction has a case for.
SwitchCases == {"rate", "increase", "sum", "avg", "count", "min", "max"}

\* C24: a query that uses a function of the built-in catalog (rate, increase,
\* sum, avg, count, min, max, abs, ceil, floor, round, timestamp, time) is
\* accepted by the evaluation: it never ends with the unsupported-function
\* error.
C24_CatalogFunctionsAccepted ==
    (last.op = "Evaluate" /\ last.query.Function \in Catalog) =>
        last.err # ErrUnsupportedFunction

\* What the code does: the evaluation accepts the seven names its switch has
\* a case for and ends with the unsupported-function error for every other
\* name of the catalog whenever the fetch succeeded.
C24_OnlySwitchCasesAccepted ==
    (last.op = "Evaluate" /\ last.query.Function \in Catalog) =>
        /\ last.query.Function \in SwitchCases => last.err # ErrUnsupportedFunction
        /\ (last.query.Function \notin SwitchCases /\ ~last.queryFails) =>
              /\ last.err = ErrUnsupportedFunction
              /\ last.result = NoResult

\* abs(m[1s]) has been evaluated over stored rows and refused.
C24_AbsRefused ==
    /\ last.op = "Evaluate"
    /\ last.query.Function = "abs"
    /\ last.fetched # <<>>
    /\ last.err = ErrUnsupportedFunction

(***************************************************************************)
(* The span specification: single spans of every status and of end times   *)
(* before, at and after their start arrive over both adapters.             *)
(***************************************************************************)
RFC3339(nanos) == [kind |-> "rfc3339", nanos |-> nanos]

\* The status codes of a span in a JSON body: the field is a string and is
\* empty when the span has no status.
JSONStatusCodes ==
    {"", "UNSET", "OK", "ERROR", "STATUS_CODE_OK", "STATUS_CODE_ERROR", "2", "bogus"}

\* The status of a span in a protobuf message: none, an enum value the
\* adapter knows, or a number the enum has no name for.
ProtoStatusCodes ==
    {"nil", "STATUS_CODE_UNSET", "STATUS_CODE_OK", "STATUS_CODE_ERROR", "7"}

\* The end of a span in a JSON body.
JSONEnds ==
    {RFC3339(SecondsOf(0)), RFC3339(SecondsOf(1)), RFC3339(SecondsOf(2)),
     [kind |-> "garbage", nanos |-> SecondsOf(2)],
     [kind |-> "number", nanos |-> SecondsOf(2)]}

\* The end of a span in a protobuf message; the last is 2^63 nanoseconds.
ProtoEnds == {SecondsOf(0), SecondsOf(1), SecondsOf(2), MaxInt64 + 1}

\* JSON spans that start at 1s.
JSONSpans ==
    {[WireSpan("r1", RFC3339(SecondsOf(1))) EXCEPT !.EndTimeUnixNano = e,
                                                   !.Status = c] :
        e \in JSONEnds, c \in JSONStatusCodes}

\* Protobuf spans that start at 1s, and one that starts at 0.
ProtoSpans ==
    {[ProtoSpan("r1", SecondsOf(1), c) EXCEPT !.EndTimeUnixNano = e] :
        e \in ProtoEnds, c \in ProtoStatusCodes}
    \cup {[ProtoSpan("r1", 0, "STATUS_CODE_OK") EXCEPT !.EndTimeUnixNano = e] :
             e \in ProtoEnds}

SpanRequest(span) == <<[Resource |-> ApiResource, Records |-> <<span>>]>>

NextSpans ==
    \/ /\ Idle /\ seq.traces < MaxSpans
       /\ \E span \in JSONSpans, f \in BOOLEAN :
             HandleTraces(SpanRequest(span), <<f>>)
    \/ /\ Idle /\ seq.traces < MaxSpans
       /\ \E span \in ProtoSpans, f \in BOOLEAN :
             TraceServiceExport(SpanRequest(span), <<f>>)
    \/ Return

SpecSpans == Init /\ [][NextSpans]_vars

SpanOps == {"HandleTraces", "TraceService.Export"}

\* The span the last request carried.
WireSpanOf == last.input[1].Records[1]

InternalStatusCodes == {"UNSET", "OK", "ERROR", "UNKNOWN"}

\* The internal status code of a wire status, in either adapter's spelling.
InternalStatusOf(wire) ==
    CASE wire \in {"nil", "", "UNSET", "STATUS_CODE_UNSET"} -> "UNSET"
      [] wire \in {"OK", "STATUS_CODE_OK"} -> "OK"
      [] wire \in {"ERROR", "STATUS_CODE_ERROR"} -> "ERROR"
      [] OTHER -> "UNKNOWN"

\* C25: every span in storage has a status_code of UNSET, OK, ERROR or
\* UNKNOWN, whichever adapter ingested it and whatever status was on the
\* wire; a wire value other than UNSET, OK and ERROR is stored as UNKNOWN.
C25_StatusCodeOneOfFour ==
    /\ \A row \in Range(traces) : row.status_code \in InternalStatusCodes
    /\ last.op \in SpanOps =>
          \A i \in DOMAIN last.added :
              last.added[i].status_code = InternalStatusOf(WireSpanOf.Status)

\* What the code does: the RPC adapter maps the status to the four values; the
\* HTTP adapter stores the text of the JSON status code as it is.
C25_HTTPStoresWireText ==
    last.op \in SpanOps =>
        \A i \in DOMAIN last.added :
            IF last.op = "HandleTraces"
            THEN last.added[i].status_code = WireSpanOf.Status
            ELSE last.added[i].status_code = InternalStatusOf(WireSpanOf.Status)

\* A span whose JSON status code is STATUS_CODE_OK is stored over HTTP with
\* that text as its status_code.
C25_WireTextStored ==
    /\ last.op = "HandleTraces"
    /\ WireSpanOf.Status = "STATUS_CODE_OK"
    /\ Len(last.added) = 1
    /\ last.added[1].status_code = "STATUS_CODE_OK"
    /\ last.added[1] \in Range(traces)

(***************************************************************************)
(* The duration of a stored span.                                          *)
(***************************************************************************)
\* The instant of a wire timestamp of either adapter: what the RPC adapter
\* holds as a number and the HTTP adapter parses from text.
InstantOf(wire) == IF last.op = "HandleTraces" THEN TimeParse(wire).t ELSE wire

WireStart == InstantOf(WireSpanOf.StartTimeUnixNano)

WireEnd == InstantOf(WireSpanOf.EndTimeUnixNano)

\* C26: every span in storage has duration_nanos >= 0, equal to end - start
\* whenever end >= start, spans with a wire end before their start included.
C26_DurationNeverNegative ==
    /\ \A row \in Range(traces) : row.duration_nanos >= 0
    /\ last.op \in SpanOps =>
          \A i \in DOMAIN last.added :
              WireEnd >= WireStart => last.added[i].duration_nanos = WireEnd - WireStart

\* What the code does: the stored duration is end - start whenever that
\* difference is one an int64 holds, negative when the end is before the
\* start; the RPC adapter wraps a difference of 2^63 and more to a negative
\* number, and the HTTP adapter takes an end it cannot parse for the zero
\* time and stores the smallest duration.
C26_DurationIsDifference ==
    last.op \in SpanOps =>
        \A i \in DOMAIN last.added :
            LET d == last.added[i].duration_nanos
            IN IF last.op = "HandleTraces"
               THEN d = Sub(WireEnd, WireStart)
               ELSE /\ (WireEnd - WireStart) \in MinInt64..MaxInt64 =>
                          d = WireEnd - WireStart
                    /\ WireEnd - WireStart > MaxInt64 => d < 0

\* A span that ends one second before it starts is stored by the RPC adapter
\* with a duration of minus one second.
C26_NegativeDurationStored ==
    /\ last.op = "TraceService.Export"
    /\ WireStart = SecondsOf(1)
    /\ WireEnd = SecondsOf(0)
    /\ Len(last.added) = 1
    /\ last.added[1].duration_nanos = -SecondsOf(1)
    /\ last.added[1] \in Range(traces)

\* The same span over HTTP.
C26_NegativeDurationOverHTTP ==
    /\ last.op = "HandleTraces"
    /\ WireStart = SecondsOf(1)
    /\ WireEnd = SecondsOf(0)
    /\ Len(last.added) = 1
    /\ last.added[1].duration_nanos = -SecondsOf(1)
    /\ last.added[1] \in Range(traces)

(***************************************************************************)
(* Histogram and summary data points over the RPC adapter.                 *)
(***************************************************************************)
RECURSIVE DataPointsOf(_)
\* The data points of the metrics of a request in the order they are
\* processed, each with the type of its metric and the name of its service.
DataPointsOf(ms) ==
    IF ms = <<>> THEN <<>>
    ELSE [i \in 1..Len(Head(ms).record.DataPoints) |->
             [type |-> Head(ms).record.Type, name |-> Head(ms).record.Name,
              d |-> Head(ms).record.DataPoints[i],
              serviceName |-> ServiceNameOf("grpc", Head(ms).resource)]]
         \o DataPointsOf(Tail(ms))

\* The sum of F over the elements of a sequence.
Total(s, F(_)) == SeqSum([i \in DOMAIN s |-> F(s[i])])

\* The number of rows of a sequence that meet a condition.
CountRows(rows, Meets(_)) == Cardinality({i \in DOMAIN rows : Meets(rows[i])})

\* A metrics export of histograms and summaries only, none of whose calls to
\* storage failed.
DecomposedExport ==
    /\ last.op = "MetricsService.Export"
    /\ \A i \in DOMAIN last.calls : ~last.calls[i].failed
    /\ \A p \in Range(DataPointsOf(Records(last.input))) :
          p.type \in {"histogram", "summary"}

\* The rows a decomposed export added are those the claim names: per data
\* point one _count row, one _sum row iff the sum is not zero, one row with
\* an le label per bucket count (buckets of them) or one row with a quantile
\* label per quantile value, and no other row; every row has the timestamp,
\* the service name and the attributes of a data point.
RowsAsClaimed(Buckets(_)) ==
    LET points == DataPointsOf(Records(last.input))
        rows == last.added
        One(p) == 1
        SumRow(p) == IF p.d.Sum # 0 THEN 1 ELSE 0
        LeRows(p) == IF p.type = "histogram" THEN Buckets(p.d) ELSE 0
        QuantileRows(p) == IF p.type = "summary" THEN Len(p.d.QuantileValues) ELSE 0
        IsCount(row) == row.metric_name = "m_count"
        IsSum(row) == row.metric_name = "m_sum"
        HasLe(row) == "le" \in DOMAIN row.labels
        HasQuantile(row) == "quantile" \in DOMAIN row.labels
    IN /\ CountRows(rows, IsCount) = Total(points, One)
       /\ CountRows(rows, IsSum) = Total(points, SumRow)
       /\ CountRows(rows, HasLe) = Total(points, LeRows)
       /\ CountRows(rows, HasQuantile) = Total(points, QuantileRows)
       /\ Len(rows) = Total(points, One) + Total(points, SumRow)
                         + Total(points, LeRows) + Total(points, QuantileRows)
       /\ \A i \in DOMAIN rows :
             \E p \in Range(points) :
                /\ rows[i].timestamp = p.d.TimeUnixNano
                /\ rows[i].service_name = p.serviceName
                /\ \A k \in DOMAIN convertAttributes(p.d.Attributes) :
                      /\ k \in DOMAIN rows[i].labels
                      /\ rows[i].labels[k] = convertAttributes(p.d.Attributes)[k]
                /\ DOMAIN rows[i].labels \subseteq
                      DOMAIN convertAttributes(p.d.Attributes) \cup {"le", "quantile"}

EveryBucketCount(d) == Len(d.BucketCounts)

\* The bucket counts that have an explicit bound.
BoundedBucketCounts(d) ==
    IF Len(d.BucketCounts) < Len(d.ExplicitBounds)
    THEN Len(d.BucketCounts) ELSE Len(d.ExplicitBounds)

\* C27: with no storage failure a histogram data point of metric m is stored
\* as one m_count row, one m_sum row iff its sum is present and not zero, and
\* one row with an added le label for each entry of its bucket counts; a
\* summary data point as one m_count row, one m_sum row iff its sum is not
\* zero, and one row with an added quantile label for each quantile value;
\* every row keeps the data point's timestamp, service name and attributes,
\* and no other rows are written.
C27_HistogramAndSummaryRows ==
    DecomposedExport => RowsAsClaimed(EveryBucketCount)

\* What the code does: a bucket count gets a row only when it has an explicit
\* bound, so the count of the last bucket, the one above every bound, is
\* never stored.
C27_OnlyBoundedBuckets ==
    DecomposedExport => RowsAsClaimed(BoundedBucketCounts)

\* A histogram data point with the bucket counts <<1, 1>> and the single
\* bound 10 has been stored with one bucket row.
C27_LastBucketDropped ==
    /\ DecomposedExport
    /\ Len(Records(last.input)) = 1
    /\ Records(last.input)[1].record.Type = "histogram"
    /\ Len(Records(last.input)[1].record.DataPoints[1].BucketCounts) = 2
    /\ CountRows(last.added, LAMBDA row : "le" \in DOMAIN row.labels) = 1

(***************************************************************************)
(* A delete statement of the purge fails.                                  *)
(***************************************************************************)
\* The table of a kind after the step.
TableAfter(kind) ==
    CASE kind = "metrics" -> metrics'
      [] kind = "traces" -> traces'
      [] kind = "logs" -> logs'

\* A purge one of whose delete statements failed.
IsFailedPurgeStep == IsPurgeStep /\ last'.failAt # 0

\* C28: when the delete statement for one record kind fails during a purge,
\* the deletes for the other two kinds are still carried out in that call,
\* and the call reports the failure.
C28_OtherKindsStillPurged ==
    [][IsFailedPurgeStep =>
          /\ last'.err # NoError
          /\ \A i \in DOMAIN Kinds :
                i # last'.failAt =>
                   TableAfter(Kinds[i]) = Survivors(Kinds[i], Table(Kinds[i]), now)]_vars

\* What the code does: the call reports the failure, the kinds before the
\* failing one are purged, and the failing kind and the kinds after it are
\* left as they were.
C28_PurgeStopsAtFailure ==
    [][IsFailedPurgeStep =>
          /\ last'.err # NoError
          /\ \A i \in DOMAIN Kinds :
                IF i < last'.failAt
                THEN TableAfter(Kinds[i]) = Survivors(Kinds[i], Table(Kinds[i]), now)
                ELSE TableAfter(Kinds[i]) = Table(Kinds[i])]_vars

\* A purge whose delete of metrics failed has returned, and a trace older
\* than its cutoff is still stored.
C28_OldTraceLeft ==
    /\ last.op = "CleanupOldData"
    /\ last.failAt = 1
    /\ last.err # NoError
    /\ \E row \in Range(traces) : row.start_time < last.cutoff

(***************************************************************************)
(* The ingestion service's servers (ingestion/service.go, grpc/server.go). *)
(* Start spawns one goroutine per enabled server; each stores its server   *)
(* handle in the Service and then listens and serves.  Stop reads the      *)
(* handles without synchronisation and shuts down the servers it sees.     *)
(* last holds the Service: the two handle fields, the position of each     *)
(* goroutine, the shutdown mark of each server and the position of Stop.   *)
(***************************************************************************)
Configs == [HTTPEnabled : BOOLEAN, GRPCEnabled : BOOLEAN]

Running == last.op = "ingestion.Service"

\* NewService and Start: `go s.startHTTPServer()` and `go s.startGRPCServer()`
\* for the enabled servers; Start returns without waiting for them.
ServiceStart(config) ==
    /\ Idle
    /\ last' = [op |-> "ingestion.Service", config |-> config,
                httpServer |-> "nil", grpcServer |-> "nil",
                http |-> IF config.HTTPEnabled THEN "spawned" ELSE "none",
                grpc |-> IF config.GRPCEnabled THEN "spawned" ELSE "none",
                inShutdown |-> FALSE, stopped |-> FALSE, stop |-> "none"]
    /\ UNCHANGED <<metrics, traces, logs, seq, now>>

\* startHTTPServer up to s.httpServer = &http.Server{...}
StoreHTTPServer ==
    /\ Running /\ last.http = "spawned"
    /\ last' = [last EXCEPT !.httpServer = "server", !.http = "stored"]
    /\ UNCHANGED <<metrics, traces, logs, seq, now>>

\* s.httpServer.ListenAndServe(): it returns ErrServerClosed at once on a
\* server that has been shut down, listens and fails (the port is taken),
\* or listens and serves.
ListenAndServe(listens) ==
    /\ Running /\ last.http = "stored"
    /\ last' = [last EXCEPT !.http = IF last.inShutdown \/ ~listens THEN "returned"
                                     ELSE "serving"]
    /\ UNCHANGED <<metrics, traces, logs, seq, now>>

\* startGRPCServer up to s.grpcServer = otlpgrpc.NewServer(...)
StoreGRPCServer ==
    /\ Running /\ last.grpc = "spawned"
    /\ last' = [last EXCEPT !.grpcServer = "server", !.grpc = "stored"]
    /\ UNCHANGED <<metrics, traces, logs, seq, now>>

\* Server.Start up to net.Listen: the port is bound, or Start returns the
\* error.
Listen(listens) ==
    /\ Running /\ last.grpc = "stored"
    /\ last' = [last EXCEPT !.grpc = IF listens THEN "bound" ELSE "returned"]
    /\ UNCHANGED <<metrics, traces, logs, seq, now>>

\* s.grpcServer.Serve(lis): on a stopped server it closes the listener and
\* returns ErrServerStopped, otherwise it accepts connections.
GRPCServe ==
    /\ Running /\ last.grpc = "bound"
    /\ last' = [last EXCEPT !.grpc = IF last.stopped THEN "returned" ELSE "serving"]
    /\ UNCHANGED <<metrics, traces, logs, seq, now>>

\* What an unsynchronised read of a handle field can see: nil while the
\* goroutine has not stored the handle, and either value once it has (no
\* lock or channel orders the read after the write).
Seen(field) == IF field = "nil" THEN {"nil"} ELSE {"nil", "server"}

\* Stop is called.
StopCalled ==
    /\ Running /\ last.stop = "none"
    /\ last' = [last EXCEPT !.stop = "called"]
    /\ UNCHANGED <<metrics, traces, logs, seq, now>>

\* if s.httpServer != nil { s.httpServer.Shutdown(ctx) }: Shutdown marks the
\* server, closes its listener and lets ListenAndServe return.
ShutdownHTTP ==
    /\ Running /\ last.stop = "called"
    /\ \E seen \in Seen(last.httpServer) :
          last' = IF seen = "nil" THEN [last EXCEPT !.stop = "httpDone"]
                  ELSE [last EXCEPT !.stop = "httpDone", !.inShutdown = TRUE,
                                    !.http = IF @ = "serving" THEN "returned" ELSE @]
    /\ UNCHANGED <<metrics, traces, logs, seq, now>>

\* if s.grpcServer != nil { s.grpcServer.Stop() }, then return nil.
\* GracefulStop marks the server, closes the listeners Serve was given and
\* lets Serve return.
StopGRPC ==
    /\ Running /\ last.stop = "httpDone"
    /\ \E seen \in Seen(last.grpcServer) :
          last' = IF seen = "nil" THEN [last EXCEPT !.stop = "returned"]
                  ELSE [last EXCEPT !.stop = "returned", !.stopped = TRUE,
                                    !.grpc = IF @ = "serving" THEN "returned" ELSE @]
    /\ UNCHANGED <<metrics, traces, logs, seq, now>>

\* The process exits after Stop, once no goroutine of the service can take
\* another step.
Exit ==
    /\ Running /\ last.stop = "returned"
    /\ last.http \in {"none", "serving", "returned"}
    /\ last.grpc \in {"none", "serving", "returned"}
    /\ last' = [op |-> "none", err |-> NoError]
    /\ UNCHANGED <<metrics, traces, logs, seq, now>>

NextServers ==
    \/ \E config \in Configs : ServiceStart(config)
    \/ StoreHTTPServer
    \/ \E listens \in BOOLEAN : ListenAndServe(listens)
    \/ StoreGRPCServer
    \/ \E listens \in BOOLEAN : Listen(listens)
    \/ GRPCServe
    \/ StopCalled
    \/ ShutdownHTTP
    \/ StopGRPC
    \/ Exit

SpecServers == Init /\ [][NextServers]_vars

\* A server of the service has its port open.
HTTPListening == last.http = "serving"

GRPCListening == last.grpc \in {"bound", "serving"}

StopReturned == Running /\ last.stop = "returned"

\* C29: after Stop has returned neither the OTLP HTTP server nor the OTLP
\* gRPC server launched by Start is listening or accepting requests, and none
\* starts listening later, under every interleaving of the server goroutines
\* with Stop.
C29_NothingListensAfterStop ==
    StopReturned => ~HTTPListening /\ ~GRPCListening

\* What the code guarantees: a server whose handle Stop saw is not accepting
\* requests once Stop has returned, and never does later.  (Its gRPC port may
\* still be bound for the moment between net.Listen and Serve.)
C29_SeenServersStopped ==
    StopReturned =>
        /\ last.inShutdown => last.http # "serving"
        /\ last.stopped => last.grpc # "serving"

\* Stop has returned without having seen the HTTP server's handle, and the
\* HTTP server is serving.
C29_ServingAfterStop ==
    /\ StopReturned
    /\ ~last.inShutdown
    /\ last.http = "serving"

(***************************************************************************)
(* The dogfood service (dogfood/service.go).  The collection loop reads    *)
(* s.enabled when the ticker fires and once more on entering               *)
(* collectAndSendTelemetry, then collects and sends metrics, traces and    *)
(* logs; SetEnabled writes s.enabled from a request handler's goroutine.   *)
(* No lock guards the field.  last holds the Service: the field enabled,   *)
(* the value it had before the last write, the position of the loop and of *)
(* a SetEnabled call, the number of times the ticker has fired, and quiet:  *)
(* SetEnabled(false) has returned and SetEnabled(true) has not been called *)
(* since.                                                                  *)
(***************************************************************************)
Dogfooding == last.op = "dogfood.Service"

\* NewService and Start: enabled is config.Dogfood, and the loop is spawned.
DogfoodStart(dogfood) ==
    /\ Idle
    /\ last' = [op |-> "dogfood.Service", enabled |-> dogfood, before |-> dogfood,
                loop |-> "wait", setter |-> "none", value |-> dogfood,
                quiet |-> FALSE, ticks |-> 0]
    /\ UNCHANGED <<metrics, traces, logs, seq, now>>

\* What an unsynchronised read of s.enabled can see: the value written last
\* or the one before it.
SeenEnabled == {last.enabled, last.before}

\* case <-ticker.C
Ticked ==
    /\ Dogfooding /\ last.loop = "wait"
    /\ last.ticks < MaxCycles
    /\ last' = [last EXCEPT !.loop = "fired", !.ticks = @ + 1]
    /\ UNCHANGED <<metrics, traces, logs, seq, now>>

\* if s.enabled { s.collectAndSendTelemetry() }
CheckEnabled ==
    /\ Dogfooding /\ last.loop = "fired"
    /\ \E seen \in SeenEnabled :
          last' = [last EXCEPT !.loop = IF seen THEN "entered" ELSE "wait"]
    /\ UNCHANGED <<metrics, traces, logs, seq, now>>

\* collectAndSendTelemetry: if !s.enabled { return }, then the three collects.
collectAndSendTelemetry ==
    /\ Dogfooding /\ last.loop = "entered"
    /\ \E seen \in SeenEnabled :
          last' = [last EXCEPT !.loop = IF seen THEN "collected" ELSE "wait"]
    /\ UNCHANGED <<metrics, traces, logs, seq, now>>

\* s.sendMetrics(metrics)
sendMetrics ==
    /\ Dogfooding /\ last.loop = "collected"
    /\ last' = [last EXCEPT !.loop = "metricsSent"]
    /\ UNCHANGED <<metrics, traces, logs, seq, now>>

\* s.sendTraces(traces)
sendTraces ==
    /\ Dogfooding /\ last.loop = "metricsSent"
    /\ last' = [last EXCEPT !.loop = "tracesSent"]
    /\ UNCHANGED <<metrics, traces, logs, seq, now>>

\* s.sendLogs(logs), and back to the select.
sendLogs ==
    /\ Dogfooding /\ last.loop = "tracesSent"
    /\ last' = [last EXCEPT !.loop = "wait"]
    /\ UNCHANGED <<metrics, traces, logs, seq, now>>

\* POST /admin/dogfood calls SetEnabled(enabled).
SetEnabledCalled(enabled) ==
    /\ Dogfooding /\ last.setter = "none"
    /\ last' = [last EXCEPT !.setter = "called", !.value = enabled,
                            !.quiet = IF enabled THEN FALSE ELSE @]
    /\ UNCHANGED <<metrics, traces, logs, seq, now>>

\* s.enabled = enabled
SetEnabledWrites ==
    /\ Dogfooding /\ last.setter = "called"
    /\ last' = [last EXCEPT !.setter = "written", !.before = last.enabled,
                            !.enabled = last.value]
    /\ UNCHANGED <<metrics, traces, logs, seq, now>>

\* SetEnabled returns.
SetEnabledReturns ==
    /\ Dogfooding /\ last.setter = "written"
    /\ last' = [last EXCEPT !.setter = "none",
                            !.quiet = IF last.value THEN @ ELSE TRUE]
    /\ UNCHANGED <<metrics, traces, logs, seq, now>>

NextDogfood ==
    \/ \E dogfood \in BOOLEAN : DogfoodStart(dogfood)
    \/ Ticked
    \/ CheckEnabled
    \/ collectAndSendTelemetry
    \/ sendMetrics
    \/ sendTraces
    \/ sendLogs
    \/ \E enabled \in BOOLEAN : SetEnabledCalled(enabled)
    \/ SetEnabledWrites
    \/ SetEnabledReturns

SpecDogfood == Init /\ [][NextDogfood]_vars

\* The step begins a send of metrics, traces or logs.
SendBegins ==
    /\ Dogfooding
    /\ last.loop \in {"collected", "metricsSent", "tracesSent"}
    /\ last'.loop # last.loop

\* C30: once SetEnabled(false) has returned the dogfood service begins no
\* further send of metrics, traces or logs until SetEnabled(true) is called,
\* a collection cycle already in progress included.
C30_NoSendWhileDisabled ==
    [][SendBegins => ~last.quiet]_vars

\* What the code guarantees: a cycle sends only after both of its reads of
\* s.enabled saw true, and once started it sends all three kinds whatever is
\* written to s.enabled meanwhile.
C30_CycleRunsToItsEnd ==
    [][/\ (Dogfooding /\ last'.loop # last.loop) =>
             /\ last.loop = "collected" => last'.loop = "metricsSent"
             /\ last.loop = "metricsSent" => last'.loop = "tracesSent"
             /\ last'.loop = "collected" => last.loop = "entered"
       /\ (Dogfooding /\ last.loop \in {"fired", "entered"}
              /\ ~last.enabled /\ ~last.before) =>
             last'.loop \in {last.loop, "wait"}]_vars

\* SetEnabled(false) has returned while a cycle has sent its metrics and has
\* its traces and logs still to send.
C30_DisabledInMidCycle ==
    /\ Dogfooding
    /\ last.quiet
    /\ ~last.enabled
    /\ last.loop = "metricsSent"

====
